---- MODULE Spec2Model ----
(***************************************************************************)
(* Verification model of the generative-fractals repository: the render    *)
(* engines, row partitioners and zoom histories of its five Python         *)
(* implementations (kimi-k2.5, qwen3, glm-4.7, claude-opus-4.5, minimax).  *)
(* Every implementation has its own variables (prefix kr_/kp_/kh_/qw_/     *)
(* pt_/mm_/op_) and its own specification; a specification leaves the      *)
(* variables of the other implementations at their initial value.          *)
(***************************************************************************)
EXTENDS Integers, Sequences, FiniteSets, TLC

\* ------------------------------------------------------------------ bounds
MaxRenders == 3        \* render() requests issued in the kimi render engine
ImgHeight == 2         \* rows of the image in the kimi render engine model
KpMaxHeight == 4       \* largest height passed to compute_fractal_parallel
PtMaxHeight == 120     \* largest image height handed to the row partitioners
PtMaxWorkers == 4      \* largest configured worker count of the row partitioners
MmMaxHeight == 4       \* largest canvas height in the minimax strip model
MmMaxWorkers == 3      \* largest num_workers in the minimax strip model
OpMaxHeight == 101     \* largest image height given to the opus FractalRenderer
OpMaxWidth == 2        \* largest image width given to the opus FractalRenderer
OpMaxWorkers == 2      \* largest _worker_count of the opus FractalRenderer
KhMaxOps == 4          \* number of UI events handled by the kimi FractalExplorer
KhMaxView == 2         \* view bounds are 0 (the fractal's default) .. KhMaxView
KhLogLen == 5          \* number of handler effects kept in kh_log
QwMaxOps == 5          \* number of UI events handled by the qwen3 FractalApp
QwMaxView == 2         \* qwen3 view bounds are 0 (the fractal's default) .. QwMaxView
OhMaxOps == 4          \* number of UI events handled by the opus FractalApp
QpMaxHeight == 4       \* qwen3 parallel render: image heights 1..QpMaxHeight
QpMaxWorkers == 3      \* qwen3 parallel render: pool sizes 1..QpMaxWorkers
KzMaxOps == 2          \* number of zooms performed through the kimi-k2.5 ZoomController
KzSize == 10           \* kimi-k2.5 canvas width and height in pixels
OyMaxHeight == 4       \* opus row mapping: image heights 1..OyMaxHeight
OyMaxY == 2            \* opus row mapping: y_min, y_max in -OyMaxY..OyMaxY
QzMaxOps == 3          \* number of calls made on the qwen3 ZoomController
QzSize == 4            \* qwen3 ZoomController width and height in pixels
OmMaxValue == 12       \* opus Multibrot: exponent values offered are -1..OmMaxValue
KnMaxIter == 6         \* kimi-k2.5 Newton: max_iter in 1..KnMaxIter
ObMaxCoord == 2        \* opus Mandelbrot: points x, y in -ObMaxCoord..ObMaxCoord
ZhMaxView == 52        \* opus ZoomHistory: views are zoom depths 0..ZhMaxView

\* ------------------------------------------------------------------ state
VARIABLES
    \* kimi-k2.5 RenderEngine (rendering/__init__.py)
    kr_is_rendering,    \* RenderEngine.is_rendering
    kr_cancel_render,   \* RenderEngine._cancel_render
    kr_render_thread,   \* RenderEngine.render_thread (0 = None, else thread id)
    kr_threads,         \* thread id -> [pc, par]: position and local state of a render thread
    kr_main,            \* position of the Tk main thread: "idle" or "joining"
    kr_after,           \* queue of root.after(0, display_image(img)) callbacks (render ids)
    kr_displayed,       \* last display_image call: [gen, latest]
    kr_requested,       \* number of render() calls accepted so far
    \* kimi-k2.5 compute_fractal_parallel (rendering/parallel.py), one call
    kp_height,          \* argument height
    kp_ctor_fails,      \* fractal/palette construction raises in the workers
    kp_par,             \* local state of the call: pending results, img_array, completed, ret
    kp_cancel,          \* what cancel_check() returns now
    kp_observed,        \* cancel_check() has returned True inside the merge loop
    kp_order,           \* row indices in the order imap_unordered yielded them
    \* row partitioners of glm-4.7, claude-opus-4.5 and minimax
    pt_height,          \* image height in rows
    pt_workers,         \* configured worker count (self.workers / _worker_count / num_workers)
    pt_impl,            \* which partitioner has run: "none", "glm", "opus", "minimax"
    pt_ranges,          \* the row ranges it built: sequence of <<start_row, end_row>>
    \* minimax FractalApp._compute_fractal (fractal_gen_tk/main.py)
    mm_height,          \* FractalApp.height
    mm_width,           \* FractalApp.width
    mm_num_workers,     \* FractalApp.num_workers
    mm_view,            \* [x_min, x_max, y_min, y_max]
    mm_max_iter,        \* FractalApp.max_iter
    mm_seq,             \* result with use_parallel off: [done, Y, iterations]
    mm_par,             \* result with use_parallel on:  [done, Y, iterations]
    \* claude-opus FractalRenderer.render (fractal_generator/renderer.py)
    op_use_numpy,       \* FractalRenderer._use_numpy
    op_use_parallel,    \* FractalRenderer._use_parallel
    op_worker_count,    \* FractalRenderer._worker_count
    op_width,           \* render argument width
    op_height,          \* render argument height
    op_registered,      \* the fractal's name is among FractalFactory.get_available()
    op_result,          \* outcome of render: [kind, pixels]
    \* kimi-k2.5 FractalExplorer (fractal_explorer.py)
    kh_fractal_name,    \* FractalExplorer.fractal_name
    kh_fractal_params,  \* FractalExplorer.fractal_params: set of <<name, value>>
    kh_palette_name,    \* FractalExplorer.palette_name
    kh_max_iter,        \* FractalExplorer.max_iter
    kh_bounds_storage,  \* FractalExplorer.bounds_storage: fractal -> bounds
    kh_iter_storage,    \* FractalExplorer.iter_storage: fractal -> max_iter
    kh_palette_storage, \* FractalExplorer.palette_storage: fractal -> palette
    kh_fractal_histories,       \* fractal -> sequence of states
    kh_fractal_history_indices, \* fractal -> cursor (0-based, -1 when empty)
    kh_render_requested,        \* the last handler called render()
    kh_log,             \* the last handlers' effect on the current history
    kh_ops,             \* number of UI events handled so far
    \* qwen3 FractalApp (fractal_explorer.py)
    qw_current_fractal_name,  \* FractalApp.current_fractal_name
    qw_bounds,                \* zoom_controller.get_bounds()
    qw_current_palette_name,  \* FractalApp.current_palette_name
    qw_iterations,            \* iteration_scale.get()
    qw_zoom_history,          \* FractalApp.zoom_history: fractal -> sequence of bounds
    qw_zoom_history_pos,      \* FractalApp.zoom_history_pos: fractal -> cursor
    qw_fractal_states,        \* FractalApp.fractal_states: fractal -> saved state
    qw_last,                  \* the last handler and the history it started from
    qw_left,                  \* fractal -> history and cursor when it was last left
    qw_ops,                   \* number of UI events handled so far
    \* claude-opus FractalApp and SessionState (fractal_generator/app.py, state.py)
    oh_current_fractal,         \* SessionState._current_fractal
    oh_bounds,                  \* FractalApp._x_min, _x_max, _y_min, _y_max (tenths)
    oh_max_iter,                \* FractalApp._max_iter
    oh_parameters,              \* FractalApp._current_fractal.parameters: set of <<name, value>>
    oh_states,                  \* SessionState._states: fractal -> FractalState
    oh_histories,               \* SessionState._histories: fractal -> [history, future]
    oh_is_rendering,            \* FractalApp._is_rendering
    oh_selection_start,         \* FractalApp._selection_start is set
    oh_task,                    \* the render thread: [phase, view]
    oh_displayed,               \* the view the canvas image was computed from
    oh_last,                    \* the last handler that ran
    oh_ops,                     \* number of UI events handled so far
    \* kimi-k2.5 view history at its capacity (fractal_explorer.py)
    kc_fractal_histories,       \* fractal name -> list of saved states
    kc_fractal_history_indices, \* fractal name -> cursor (0-based)
    kc_bounds_storage,          \* fractal name -> current view
    kc_last,                    \* the last operation and whether it appended an entry
    \* qwen3 ParallelRenderEngine.render_with_bounds (rendering/parallel.py)
    qp_height,                  \* image height of the render
    qp_num_workers,             \* size of the multiprocessing pool
    qp_pending,                 \* rows whose result imap_unordered has not yielded yet
    qp_results,                 \* the (y, row) results in the order they were yielded
    qp_progress,                \* the (current, total) arguments of the progress callbacks, in order
    qp_ret,                     \* "running", or "img" once the image was returned
    \* kimi-k2.5 ZoomController (navigation/__init__.py)
    kz_bounds,                  \* stored viewport: numerators xmin, xmax, ymin, ymax over the denominator den
    kz_drag_start,              \* pixel where the button went down, or <<>> (None)
    kz_is_rendering,            \* RenderEngine.is_busy()
    kz_last,                    \* the last zoom performed ("click", "wheel", "selection") or "none"
    kz_ops,                     \* number of zooms performed
    \* claude-opus renderer: plane y of every image row (renderer.py)
    oy_height,                  \* image height
    oy_worker_count,            \* FractalRenderer._worker_count
    oy_y_min,                   \* lower y bound of the view
    oy_y_max,                   \* upper y bound of the view
    oy_path,                    \* "none", or the render path that ran
    oy_rows,                    \* row index + 1 -> the y the row was evaluated at, <<numerator, denominator>>
    \* qwen3 ZoomController (navigation/__init__.py)
    qz_bounds,                  \* viewport: numerators xmin, xmax, ymin, ymax over the denominator den
    qz_last,                    \* the last call and its arguments
    qz_ops,                     \* number of calls made
    \* minimax FractalFactory (fractal_gen_tk/fractals.py)
    mf_fractals,                \* FractalFactory._fractals: internal key -> fractal class
    mf_last,                    \* the last call: op, name, and what create returned
    \* kimi-k2.5 FractalRegistry and PaletteRegistry (fractals/__init__.py, palettes/__init__.py)
    kg_fractals,                \* FractalRegistry._fractals: name -> class
    kg_palettes,                \* PaletteRegistry._palettes: name -> class
    kg_last,                    \* the last call: registry, op, name, and its outcome
    \* claude-opus MultibrotFractal parameters (fractal_generator/fractals.py)
    om_exponent,                \* MultibrotFractal._exponent
    om_last,                    \* the last set_parameter call: name, value, and the exception it raised ("" for none)
    \* kimi-k2.5 NewtonFractal.compute_pixel (fractals/newton.py)
    kn_max_iter,                \* max_iter of the render
    kn_first,                   \* outcome of compute_pixel for a first pixel
    kn_second,                  \* outcome of compute_pixel for a second pixel
    \* claude-opus MandelbrotFractal escape counts (fractal_generator/fractals.py)
    ob_x,                       \* real part of the point
    ob_y,                       \* imaginary part of the point
    ob_max_iter,                \* max_iter of the call
    ob_scalar,                  \* result of calculate, -1 before the call
    ob_array,                   \* result of calculate_array at the point, -1 before the call
    \* claude-opus ZoomHistory of one fractal (fractal_generator/state.py)
    zh_stacks,                  \* ZoomHistory: [history, future]
    zh_current,                 \* the caller's current view (a zoom depth)
    zh_last                     \* the last call: [op, arg, ok, ret, before]

krVars == <<kr_is_rendering, kr_cancel_render, kr_render_thread, kr_threads,
            kr_main, kr_after, kr_displayed, kr_requested>>
kpVars == <<kp_height, kp_ctor_fails, kp_par, kp_cancel, kp_observed, kp_order>>

ptVars == <<pt_height, pt_workers, pt_impl, pt_ranges>>

mmVars == <<mm_height, mm_width, mm_num_workers, mm_view, mm_max_iter, mm_seq, mm_par>>

opVars == <<op_use_numpy, op_use_parallel, op_worker_count, op_width, op_height,
           op_registered, op_result>>

khVars == <<kh_fractal_name, kh_fractal_params, kh_palette_name, kh_max_iter,
           kh_bounds_storage, kh_iter_storage, kh_palette_storage,
           kh_fractal_histories, kh_fractal_history_indices,
           kh_render_requested, kh_log, kh_ops>>

qwVars == <<qw_current_fractal_name, qw_bounds, qw_current_palette_name, qw_iterations,
           qw_zoom_history, qw_zoom_history_pos, qw_fractal_states, qw_last, qw_left,
           qw_ops>>

ohVars == <<oh_current_fractal, oh_bounds, oh_max_iter, oh_parameters,
           oh_states, oh_histories, oh_is_rendering, oh_selection_start,
           oh_task, oh_displayed, oh_last, oh_ops>>

kcVars == <<kc_fractal_histories, kc_fractal_history_indices, kc_bounds_storage, kc_last>>

qpVars == <<qp_height, qp_num_workers, qp_pending, qp_results,
           qp_progress, qp_ret>>

kzVars == <<kz_bounds, kz_drag_start, kz_is_rendering, kz_last,
           kz_ops>>

oyVars == <<oy_height, oy_worker_count, oy_y_min, oy_y_max,
           oy_path, oy_rows>>

qzVars == <<qz_bounds, qz_last, qz_ops>>

mfVars == <<mf_fractals, mf_last>>

kgVars == <<kg_fractals, kg_palettes, kg_last>>

omVars == <<om_exponent, om_last>>

knVars == <<kn_max_iter, kn_first, kn_second>>

obVars == <<ob_x, ob_y, ob_max_iter, ob_scalar,
           ob_array>>

zhVars == <<zh_stacks, zh_current, zh_last>>

vars == <<krVars, kpVars, ptVars, mmVars, opVars, khVars, qwVars, ohVars, kcVars, qpVars, kzVars, oyVars, qzVars, mfVars, kgVars, omVars, knVars, obVars, zhVars>>

\* what the actions of one implementation leave alone: all the others
krOther == <<kpVars, ptVars, mmVars, opVars, khVars, qwVars, ohVars, kcVars, qpVars, kzVars, oyVars, qzVars, mfVars, kgVars, omVars, knVars, obVars, zhVars>>
kpOther == <<krVars, ptVars, mmVars, opVars, khVars, qwVars, ohVars, kcVars, qpVars, kzVars, oyVars, qzVars, mfVars, kgVars, omVars, knVars, obVars, zhVars>>
ptOther == <<krVars, kpVars, mmVars, opVars, khVars, qwVars, ohVars, kcVars, qpVars, kzVars, oyVars, qzVars, mfVars, kgVars, omVars, knVars, obVars, zhVars>>
mmOther == <<krVars, kpVars, ptVars, opVars, khVars, qwVars, ohVars, kcVars, qpVars, kzVars, oyVars, qzVars, mfVars, kgVars, omVars, knVars, obVars, zhVars>>
opOther == <<krVars, kpVars, ptVars, mmVars, khVars, qwVars, ohVars, kcVars, qpVars, kzVars, oyVars, qzVars, mfVars, kgVars, omVars, knVars, obVars, zhVars>>
khOther == <<krVars, kpVars, ptVars, mmVars, opVars, qwVars, ohVars, kcVars, qpVars, kzVars, oyVars, qzVars, mfVars, kgVars, omVars, knVars, obVars, zhVars>>
qwOther == <<krVars, kpVars, ptVars, mmVars, opVars, khVars, ohVars, kcVars, qpVars, kzVars, oyVars, qzVars, mfVars, kgVars, omVars, knVars, obVars, zhVars>>
ohOther == <<krVars, kpVars, ptVars, mmVars, opVars, khVars, qwVars, kcVars, qpVars, kzVars, oyVars, qzVars, mfVars, kgVars, omVars, knVars, obVars, zhVars>>
kcOther == <<krVars, kpVars, ptVars, mmVars, opVars, khVars, qwVars, ohVars, qpVars, kzVars, oyVars, qzVars, mfVars, kgVars, omVars, knVars, obVars, zhVars>>
qpOther == <<krVars, kpVars, ptVars, mmVars, opVars, khVars, qwVars, ohVars, kcVars, kzVars, oyVars, qzVars, mfVars, kgVars, omVars, knVars, obVars, zhVars>>
kzOther == <<krVars, kpVars, ptVars, mmVars, opVars, khVars, qwVars, ohVars, kcVars, qpVars, oyVars, qzVars, mfVars, kgVars, omVars, knVars, obVars, zhVars>>
oyOther == <<krVars, kpVars, ptVars, mmVars, opVars, khVars, qwVars, ohVars, kcVars, qpVars, kzVars, qzVars, mfVars, kgVars, omVars, knVars, obVars, zhVars>>
qzOther == <<krVars, kpVars, ptVars, mmVars, opVars, khVars, qwVars, ohVars, kcVars, qpVars, kzVars, oyVars, mfVars, kgVars, omVars, knVars, obVars, zhVars>>
mfOther == <<krVars, kpVars, ptVars, mmVars, opVars, khVars, qwVars, ohVars, kcVars, qpVars, kzVars, oyVars, qzVars, kgVars, omVars, knVars, obVars, zhVars>>
kgOther == <<krVars, kpVars, ptVars, mmVars, opVars, khVars, qwVars, ohVars, kcVars, qpVars, kzVars, oyVars, qzVars, mfVars, omVars, knVars, obVars, zhVars>>
omOther == <<krVars, kpVars, ptVars, mmVars, opVars, khVars, qwVars, ohVars, kcVars, qpVars, kzVars, oyVars, qzVars, mfVars, kgVars, knVars, obVars, zhVars>>
knOther == <<krVars, kpVars, ptVars, mmVars, opVars, khVars, qwVars, ohVars, kcVars, qpVars, kzVars, oyVars, qzVars, mfVars, kgVars, omVars, obVars, zhVars>>
obOther == <<krVars, kpVars, ptVars, mmVars, opVars, khVars, qwVars, ohVars, kcVars, qpVars, kzVars, oyVars, qzVars, mfVars, kgVars, omVars, knVars, zhVars>>
zhOther == <<krVars, kpVars, ptVars, mmVars, opVars, khVars, qwVars, ohVars, kcVars, qpVars, kzVars, oyVars, qzVars, mfVars, kgVars, omVars, knVars, obVars>>

\* ==================================================================
\* kimi-k2.5  rendering/parallel.py
\* ==================================================================

\* A row of pixels is abstracted to one number: 0 is the all-zero row
\* np.zeros((width, 3)); k+1 is the row computed at y-coordinate index k.
ZeroRow == 0

\* compute_row_wrapper: returns (row_idx, row).  The y coordinate handed to
\* row i is y[height-1-i]; a construction failure returns the zero row.
compute_row_wrapper(row_idx, height, ctor_fails) ==
    IF ctor_fails THEN <<row_idx, ZeroRow>>
    ELSE <<row_idx, (height - 1 - row_idx) + 1>>

\* State of compute_fractal_parallel right after line 92: nothing merged,
\* img_array zero-filled, every row still to be yielded by imap_unordered.
ParStart(height) ==
    [pending |-> 0 .. (height - 1),
     img |-> [i \in 0 .. (height - 1) |-> ZeroRow],
     completed |-> 0,
     ret |-> IF height = 0 THEN "img" ELSE "running"]

\* MergeRow with the cancel branch leaving the loop instead of returning
\* None (break in place of "return None").
MergeRow_break(par, i, height, ctor_fails, cancelled) ==
    IF cancelled
    THEN [par EXCEPT !.ret = "img"]
    ELSE LET res == compute_row_wrapper(i, height, ctor_fails)
         IN [pending |-> par.pending \ {i},
             img |-> [par.img EXCEPT ![res[1]] = res[2]],
             completed |-> par.completed + 1,
             ret |-> IF par.pending = {i} THEN "img" ELSE "running"]

\* MergeRow storing each row at its arrival position instead of row_idx.
MergeRow_arrival(par, i, height, ctor_fails, cancelled) ==
    IF cancelled
    THEN [par EXCEPT !.ret = "None"]
    ELSE LET res == compute_row_wrapper(i, height, ctor_fails)
         IN [pending |-> par.pending \ {i},
             img |-> [par.img EXCEPT ![par.completed] = res[2]],
             completed |-> par.completed + 1,
             ret |-> IF par.pending = {i} THEN "img" ELSE "running"]

\* One pass of the loop body (lines 93-103) for the result of row i as it
\* arrives: a true cancel_check() returns None, else the row is stored at
\* its own index.  The loop ends, and img_array is returned (line 112),
\* after the last result.
MergeRow(par, i, height, ctor_fails, cancelled) ==
    IF cancelled
    THEN [par EXCEPT !.ret = "None"]
    ELSE LET res == compute_row_wrapper(i, height, ctor_fails)
         IN [pending |-> par.pending \ {i},
             img |-> [par.img EXCEPT ![res[1]] = res[2]],
             completed |-> par.completed + 1,
             ret |-> IF par.pending = {i} THEN "img" ELSE "running"]

KpIdle ==
    /\ kp_height = 0
    /\ kp_ctor_fails = FALSE
    /\ kp_par = ParStart(0)
    /\ kp_cancel = FALSE
    /\ kp_observed = FALSE
    /\ kp_order = <<>>

\* One call compute_fractal_parallel(height, ..., cancel_check): the caller
\* picks the height and whether the fractal/palette can be constructed.
KpInit ==
    /\ kp_height \in 1 .. KpMaxHeight
    /\ kp_ctor_fails \in BOOLEAN
    /\ kp_par = ParStart(kp_height)
    /\ kp_cancel = FALSE
    /\ kp_observed = FALSE
    /\ kp_order = <<>>

\* The pool yields the result of some row not yet yielded (any order) and
\* the loop body runs on it.
compute_fractal_parallel_merge(i) ==
    /\ kp_par.ret = "running"
    /\ i \in kp_par.pending
    /\ kp_par' = MergeRow(kp_par, i, kp_height, kp_ctor_fails, kp_cancel)
    /\ kp_observed' = (kp_observed \/ kp_cancel)
    /\ kp_order' = IF kp_cancel THEN kp_order ELSE Append(kp_order, i)
    /\ UNCHANGED <<kp_height, kp_ctor_fails, kp_cancel>>
    /\ UNCHANGED kpOther

\* A worker raises outside the try of compute_row_wrapper (compute_pixel or
\* get_color): the results iterator re-raises, lines 108-110 return None.
compute_fractal_parallel_except ==
    /\ kp_par.ret = "running"
    /\ ~kp_ctor_fails
    /\ kp_par' = [kp_par EXCEPT !.ret = "None"]
    /\ UNCHANGED <<kp_height, kp_ctor_fails, kp_cancel, kp_observed, kp_order>>
    /\ UNCHANGED kpOther

\* The owner of the cancel flag sets it (RenderEngine.render line 46,
\* request_cancel) or clears it (render line 52) while the call runs.
request_cancel ==
    /\ kp_par.ret = "running"
    /\ ~kp_cancel
    /\ kp_cancel' = TRUE
    /\ UNCHANGED <<kp_height, kp_ctor_fails, kp_par, kp_observed, kp_order>>
    /\ UNCHANGED kpOther

clear_cancel ==
    /\ kp_par.ret = "running"
    /\ kp_cancel
    /\ kp_cancel' = FALSE
    /\ UNCHANGED <<kp_height, kp_ctor_fails, kp_par, kp_observed, kp_order>>
    /\ UNCHANGED kpOther

KpNext ==
    \/ \E i \in 0 .. (KpMaxHeight - 1) : compute_fractal_parallel_merge(i)
    \/ compute_fractal_parallel_except
    \/ request_cancel
    \/ clear_cancel

\* ==================================================================
\* Row partitioners: glm rendering/parallel.py, claude-opus renderer.py,
\* minimax fractal_gen_tk/main.py
\* ==================================================================

Min(a, b) == IF a < b THEN a ELSE b
Max(a, b) == IF a > b THEN a ELSE b

\* claude-opus FractalRenderer._min_rows_per_worker
MinRowsPerWorker == 50

\* GlmRanges with the last worker given rows_per_worker rows like the
\* others (the "if i == self.workers - 1" case left out).
GlmRanges_noRemainder(height, workers) ==
    LET rows_per_worker == height \div workers
    IN [k \in 1 .. workers |->
           <<(k - 1) * rows_per_worker, (k - 1) * rows_per_worker + rows_per_worker>>]

\* glm ParallelRenderer.render lines 79-89: worker i (k = i+1) gets
\* range(start_row, end_row).
GlmRanges(height, workers) ==
    LET rows_per_worker == height \div workers
    IN [k \in 1 .. workers |->
           <<(k - 1) * rows_per_worker,
             IF k - 1 = workers - 1 THEN height
             ELSE (k - 1) * rows_per_worker + rows_per_worker>>]

\* claude-opus _render_numpy_parallel lines 314-321.
OpusRanges(height, worker_count) ==
    LET num_workers == Min(worker_count, Max(1, height \div MinRowsPerWorker))
        rows_per_chunk == height \div num_workers
    IN [k \in 1 .. num_workers |->
           <<(k - 1) * rows_per_chunk,
             IF k - 1 = num_workers - 1 THEN height ELSE k * rows_per_chunk>>]

\* minimax _compute_fractal lines 385-386 and 405-406: one strip for every
\* ys in range(0, height, strip_h).
MinimaxRanges(height, num_workers) ==
    LET workers == Max(1, Min(num_workers, Max(1, height \div 2)))
        strip_h == Max(1, height \div workers)
        n == (height + strip_h - 1) \div strip_h
    IN [k \in 1 .. n |-> <<(k - 1) * strip_h, Min((k - 1) * strip_h + strip_h, height)>>]

PtIdle ==
    /\ pt_height = 0
    /\ pt_workers = 0
    /\ pt_impl = "none"
    /\ pt_ranges = <<>>

PtInit ==
    /\ pt_height \in 1 .. PtMaxHeight
    /\ pt_workers \in 1 .. PtMaxWorkers
    /\ pt_impl = "none"
    /\ pt_ranges = <<>>

ParallelRenderer_render_partition ==
    /\ pt_impl = "none"
    /\ pt_impl' = "glm"
    /\ pt_ranges' = GlmRanges(pt_height, pt_workers)
    /\ UNCHANGED <<pt_height, pt_workers>>
    /\ UNCHANGED ptOther

FractalRenderer_render_numpy_parallel_partition ==
    /\ pt_impl = "none"
    /\ pt_impl' = "opus"
    /\ pt_ranges' = OpusRanges(pt_height, pt_workers)
    /\ UNCHANGED <<pt_height, pt_workers>>
    /\ UNCHANGED ptOther

FractalApp_compute_fractal_partition ==
    /\ pt_impl = "none"
    /\ pt_impl' = "minimax"
    /\ pt_ranges' = MinimaxRanges(pt_height, pt_workers)
    /\ UNCHANGED <<pt_height, pt_workers>>
    /\ UNCHANGED ptOther

PtNext ==
    \/ ParallelRenderer_render_partition
    \/ FractalRenderer_render_numpy_parallel_partition
    \/ FractalApp_compute_fractal_partition

\* ==================================================================
\* minimax  fractal_gen_tk/main.py  _compute_fractal / _compute_strip
\* ==================================================================
\* Plane coordinates are exact rationals num/den.  With integer view bounds
\* every coordinate the code computes is a multiple of 1/Q(height), so a
\* coordinate is kept as its numerator over that denominator.

MmQ(height) == IF height = 1 THEN 1 ELSE height * (height - 1)

\* numpy.linspace(a, b, n) for n >= 1: n samples from a to b, both included;
\* a alone when n = 1.  a and b are numerators over a common denominator.
Linspace(a, b, n) ==
    [k \in 0 .. (n - 1) |-> IF n = 1 THEN a ELSE a + (k * (b - a)) \div (n - 1)]

\* |z| > ESCAPE_RADIUS for z = (zr + i zi)/den.
MmEscaped(zr, zi, den) == zr * zr + zi * zi > 4 * den * den

\* Mandelbrot.calculate for one point c = (cx + i cy)/q, loop index i with
\* z = (zr + i zi)/den not yet escaped: z <- z*z + c, div_time = i when the
\* new z escapes, max_iter when the loop runs out.
RECURSIVE MmIterate(_, _, _, _, _, _, _, _)
MmIterate(zr, zi, den, cx, cy, q, i, max_iter) ==
    IF i = max_iter THEN max_iter
    ELSE LET nden == IF i = 0 THEN q ELSE den * den
             nr == IF i = 0 THEN cx ELSE zr * zr - zi * zi + cx * (nden \div q)
             ni == IF i = 0 THEN cy ELSE 2 * zr * zi + cy * (nden \div q)
         IN IF MmEscaped(nr, ni, nden) THEN i
            ELSE MmIterate(nr, ni, nden, cx, cy, q, i + 1, max_iter)

Mandelbrot_calculate(cx, cy, q, max_iter) == MmIterate(0, 0, 1, cx, cy, q, 0, max_iter)

\* x = np.linspace(x_min, x_max, width), as numerators over q (lines 86, 376)
MmX(view, width, q) == Linspace(view.x_min * q, view.x_max * q, width)

\* fractal.calculate(X, Y, max_iter) on the meshgrid of x and the rows y
MmCalculate(x, y, q, max_iter) ==
    [r \in DOMAIN y |-> [c \in DOMAIN x |-> Mandelbrot_calculate(x[c], y[r], q, max_iter)]]

\* Sequential mode, lines 376-381: y = np.linspace(y_max, y_min, height).
MmSequential(view, width, height, max_iter) ==
    LET q == MmQ(height)
        y == Linspace(view.y_max * q, view.y_min * q, height)
    IN [done |-> TRUE, Y |-> y, iterations |-> MmCalculate(MmX(view, width, q), y, q, max_iter)]

\* _compute_strip lines 80-90 for the strip [y_start, y_end): the strip's
\* own linspace between the y of its first and of its last row.
MmStripY(y_start, y_end, view, height) ==
    LET q == MmQ(height)
        span == view.y_max - view.y_min
    IN Linspace(view.y_max * q - (y_start * span * q) \div height,
                view.y_max * q - ((y_end - 1) * span * q) \div height,
                y_end - y_start)

\* Parallel mode, lines 383-420: result[ys:ye] = data for every strip.
MmParallel(view, width, height, max_iter, num_workers) ==
    LET q == MmQ(height)
        strips == MinimaxRanges(height, num_workers)
        StripOf(r) == CHOOSE k \in 1 .. Len(strips) : strips[k][1] <= r /\ r < strips[k][2]
        y == [r \in 0 .. (height - 1) |->
                 MmStripY(strips[StripOf(r)][1], strips[StripOf(r)][2], view, height)
                     [r - strips[StripOf(r)][1]]]
    IN [done |-> TRUE, Y |-> y, iterations |-> MmCalculate(MmX(view, width, q), y, q, max_iter)]

MmNone == [done |-> FALSE, Y |-> <<>>, iterations |-> <<>>]

MmIdle ==
    /\ mm_height = 0
    /\ mm_width = 0
    /\ mm_num_workers = 0
    /\ mm_view = [x_min |-> 0, x_max |-> 0, y_min |-> 0, y_max |-> 0]
    /\ mm_max_iter = 0
    /\ mm_seq = MmNone
    /\ mm_par = MmNone

\* The canvas size, worker count, view and max_iter the app renders with;
\* num_workers = max(2, cpu_count()) (line 126).
MmInit ==
    /\ mm_height \in 1 .. MmMaxHeight
    /\ mm_width \in {1, 2}
    /\ mm_num_workers \in 2 .. MmMaxWorkers
    /\ mm_view \in [x_min : {-2, -1}, x_max : {0, 1}, y_min : {-2, -1}, y_max : {1, 2}]
    /\ mm_max_iter \in {1, 2}
    /\ mm_seq = MmNone
    /\ mm_par = MmNone

\* _compute_fractal with the Parallel checkbox off
FractalApp_compute_fractal_sequential ==
    /\ ~mm_seq.done
    /\ mm_seq' = MmSequential(mm_view, mm_width, mm_height, mm_max_iter)
    /\ UNCHANGED <<mm_height, mm_width, mm_num_workers, mm_view, mm_max_iter, mm_par>>
    /\ UNCHANGED mmOther

\* _compute_fractal with the Parallel checkbox on
FractalApp_compute_fractal_parallel ==
    /\ ~mm_par.done
    /\ mm_par' = MmParallel(mm_view, mm_width, mm_height, mm_max_iter, mm_num_workers)
    /\ UNCHANGED <<mm_height, mm_width, mm_num_workers, mm_view, mm_max_iter, mm_seq>>
    /\ UNCHANGED mmOther

MmNext ==
    \/ FractalApp_compute_fractal_sequential
    \/ FractalApp_compute_fractal_parallel

\* ==================================================================
\* claude-opus  fractal_generator/renderer.py  FractalRenderer.render
\* ==================================================================
\* A pixel is recorded as <<px, py, colour>>: the column and row of the sample
\* it was computed from and the palette entry; the colour itself is not
\* modelled.  An image is a sequence of rows, a row a sequence of pixels.

OpPixel(px, py) == <<px, py, "rgb">>

\* _render_sequential lines 147-171: one row appended for every py in
\* range(height), one colour appended to it for every px in range(width).
render_sequential(width, height) ==
    [kind |-> "pixels",
     pixels |-> [r \in 1 .. height |-> [c \in 1 .. width |-> OpPixel(c - 1, r - 1)]]]

\* _apply_palette_vectorized lines 362-371: for py in range(height) a row of
\* palette_lut[iterations[py, px]] for px in range(width).
apply_palette_vectorized(iterations, height, width) ==
    [r \in 1 .. height |-> [c \in 1 .. width |-> iterations[r][c]]]

\* _render_numpy lines 252-279: the whole height x width grid at once.
render_numpy(width, height) ==
    LET iterations == [r \in 1 .. height |-> [c \in 1 .. width |-> OpPixel(c - 1, r - 1)]]
    IN [kind |-> "pixels", pixels |-> apply_palette_vectorized(iterations, height, width)]

\* _render_numpy_parallel lines 293-351: iterations starts as zeros(height,
\* width) and every chunk [start_row, end_row) is copied into it; falls back
\* to _render_numpy when the fractal is not identified (lines 303-308).
render_numpy_parallel(width, height, worker_count, registered) ==
    IF ~registered THEN render_numpy(width, height)
    ELSE LET chunks == OpusRanges(height, worker_count)
             Filled(r) == \E k \in 1 .. Len(chunks) : chunks[k][1] <= r - 1 /\ r - 1 < chunks[k][2]
             iterations == [r \in 1 .. height |->
                               [c \in 1 .. width |->
                                   IF Filled(r) THEN OpPixel(c - 1, r - 1) ELSE <<0, 0, "zero">>]]
         IN [kind |-> "pixels", pixels |-> apply_palette_vectorized(iterations, height, width)]

\* _render_parallel lines 185-238: falls back to _render_sequential when the
\* fractal is not identified (lines 202-207); otherwise line 228 evaluates
\* the name _calculate_row, which no module defines or imports, and the
\* call leaves render with a NameError.
render_parallel(width, height, registered) ==
    IF ~registered THEN render_sequential(width, height)
    ELSE [kind |-> "NameError", pixels |-> <<>>]

OpNoResult == [kind |-> "none", pixels |-> <<>>]

OpIdle ==
    /\ op_use_numpy = TRUE
    /\ op_use_parallel = TRUE
    /\ op_worker_count = 0
    /\ op_width = 0
    /\ op_height = 0
    /\ op_registered = TRUE
    /\ op_result = OpNoResult

\* FractalRenderer.__init__ lines 61-65 and the arguments of one render call.
OpInit ==
    /\ op_use_numpy = TRUE
    /\ op_use_parallel = TRUE
    /\ op_worker_count \in 1 .. OpMaxWorkers
    /\ op_width \in 1 .. OpMaxWidth
    /\ op_height \in {1, 2, 49, 50, OpMaxHeight - 1, OpMaxHeight}
    /\ op_registered \in BOOLEAN
    /\ op_result = OpNoResult

\* use_parallel setter, lines 71-73
FractalRenderer_set_use_parallel ==
    /\ op_result.kind = "none"
    /\ op_use_parallel' = ~op_use_parallel
    /\ UNCHANGED <<op_use_numpy, op_worker_count, op_width, op_height, op_registered, op_result>>
    /\ UNCHANGED opOther

\* use_numpy setter, lines 79-81
FractalRenderer_set_use_numpy ==
    /\ op_result.kind = "none"
    /\ op_use_numpy' = ~op_use_numpy
    /\ UNCHANGED <<op_use_parallel, op_worker_count, op_width, op_height, op_registered, op_result>>
    /\ UNCHANGED opOther

\* render lines 112-131: dispatch on the two flags
FractalRenderer_render ==
    /\ op_result.kind = "none"
    /\ op_result' =
         IF op_use_numpy /\ op_use_parallel
             THEN render_numpy_parallel(op_width, op_height, op_worker_count, op_registered)
         ELSE IF op_use_numpy THEN render_numpy(op_width, op_height)
         ELSE IF op_use_parallel THEN render_parallel(op_width, op_height, op_registered)
         ELSE render_sequential(op_width, op_height)
    /\ UNCHANGED <<op_use_numpy, op_use_parallel, op_worker_count, op_width, op_height, op_registered>>
    /\ UNCHANGED opOther

OpNext ==
    \/ FractalRenderer_set_use_parallel
    \/ FractalRenderer_set_use_numpy
    \/ FractalRenderer_render

\* ==================================================================
\* kimi-k2.5  fractal_explorer.py  FractalExplorer view history
\* ==================================================================
\* View bounds are abstracted to identifiers 0 .. KhMaxView, 0 being the
\* fractal's get_default_bounds().  A Python dict is a function whose DOMAIN
\* is its key set; fractal_params is the set of its <<name, value>> items.

MAX_HISTORY_SIZE == 50
DEFAULT_ITERATIONS == 100

KhFractals == {"mandelbrot", "julia"}
KhPalettes == {"smooth", "fire"}
KhIters == {DEFAULT_ITERATIONS, 2 * DEFAULT_ITERATIONS}
KhViews == 0 .. KhMaxView
\* JuliaFractal.parameters has the single text parameter "c"; Mandelbrot has none.
KhParamNames(name) == IF name = "julia" THEN {"c"} ELSE {}
KhParamValues == {"-0.7+0.27015j", "0.3+0.5j"}

EmptyDict == [k \in {} |-> 0]
Put(d, k, v) == [x \in (DOMAIN d) \cup {k} |-> IF x = k THEN v ELSE d[x]]
Get(d, k, default) == IF k \in DOMAIN d THEN d[k] ELSE default

\* get_bounds (lines 143-146) and the state dict built by
\* _push_current_state (lines 218-223)
KhState(bs, name, params, palette, iter) ==
    [bounds |-> Get(bs, name, 0), fractal_params |-> params,
     palette_name |-> palette, max_iter |-> iter]

AppState ==
    KhState(kh_bounds_storage, kh_fractal_name, kh_fractal_params, kh_palette_name, kh_max_iter)

\* _push_current_state dropping the newest entry of an over-full history
\* (history.pop() in place of history.pop(0)).
push_current_state_pop_newest(H, I, name, state) ==
    LET H1 == IF name \in DOMAIN H THEN H ELSE Put(H, name, <<>>)
        I1 == IF name \in DOMAIN H THEN I ELSE Put(I, name, -1)
        history == H1[name]
        history_index == I1[name]
        duplicate == /\ Len(history) > 0
                     /\ history_index >= 0
                     /\ history_index < Len(history)
                     /\ history[history_index + 1] = state
        kept == IF history_index < Len(history) - 1
                THEN SubSeq(history, 1, history_index + 1) ELSE history
        added == Append(kept, state)
    IN IF duplicate THEN [H |-> H1, I |-> I1, appended |-> FALSE]
       ELSE IF Len(added) > MAX_HISTORY_SIZE
            THEN [H |-> Put(H1, name, SubSeq(added, 1, Len(added) - 1)),
                  I |-> Put(I1, name, Len(added) - 2), appended |-> TRUE]
            ELSE [H |-> Put(H1, name, added),
                  I |-> Put(I1, name, history_index + 1), appended |-> TRUE]

\* _push_current_state, lines 208-249, on the histories H and cursors I.
push_current_state(H, I, name, state) ==
    LET H1 == IF name \in DOMAIN H THEN H ELSE Put(H, name, <<>>)
        I1 == IF name \in DOMAIN H THEN I ELSE Put(I, name, -1)
        history == H1[name]
        history_index == I1[name]
        duplicate == /\ Len(history) > 0
                     /\ history_index >= 0
                     /\ history_index < Len(history)
                     /\ history[history_index + 1] = state
        kept == IF history_index < Len(history) - 1
                THEN SubSeq(history, 1, history_index + 1) ELSE history
        added == Append(kept, state)
    IN IF duplicate THEN [H |-> H1, I |-> I1, appended |-> FALSE]
       ELSE IF Len(added) > MAX_HISTORY_SIZE
            THEN [H |-> Put(H1, name, Tail(added)),
                  I |-> Put(I1, name, Len(Tail(added)) - 1), appended |-> TRUE]
            ELSE [H |-> Put(H1, name, added),
                  I |-> Put(I1, name, history_index + 1), appended |-> TRUE]

\* _restore_state, lines 288-312: fractal_params, palette_name and max_iter
\* are restored only when the entry's value is truthy; bounds always.
restore_state(state, name, params, palette, iter, bs, is, ps) ==
    LET pal == state.palette_name # ""
        it == state.max_iter # 0
    IN [fractal_params |-> IF state.fractal_params # {} THEN state.fractal_params ELSE params,
        palette_name |-> IF pal THEN state.palette_name ELSE palette,
        palette_storage |-> IF pal THEN Put(ps, name, state.palette_name) ELSE ps,
        max_iter |-> IF it THEN state.max_iter ELSE iter,
        iter_storage |-> IF it THEN Put(is, name, state.max_iter) ELSE is,
        bounds_storage |-> Put(bs, name, state.bounds)]

KhLogAppend(log, e) ==
    LET l == Append(log, e) IN IF Len(l) > KhLogLen THEN Tail(l) ELSE l

KhLogPush(r, state) ==
    [op |-> IF r.appended THEN "push" ELSE "other", state |-> state, moved |-> r.appended]

\* The common tail of the handlers that change the view of the current
\* fractal: _push_current_state() and render().
KhPushAndRender(params, palette, iter, bs, is, ps) ==
    LET state == KhState(bs, kh_fractal_name, params, palette, iter)
        r == push_current_state(kh_fractal_histories, kh_fractal_history_indices,
                                kh_fractal_name, state)
    IN /\ kh_fractal_params' = params
       /\ kh_palette_name' = palette
       /\ kh_max_iter' = iter
       /\ kh_bounds_storage' = bs
       /\ kh_iter_storage' = is
       /\ kh_palette_storage' = ps
       /\ kh_fractal_histories' = r.H
       /\ kh_fractal_history_indices' = r.I
       /\ kh_log' = KhLogAppend(kh_log, KhLogPush(r, state))
       /\ kh_render_requested' = TRUE
       /\ kh_ops' = kh_ops + 1
       /\ UNCHANGED kh_fractal_name

KhIdle ==
    /\ kh_fractal_name = ""
    /\ kh_fractal_params = {}
    /\ kh_palette_name = ""
    /\ kh_max_iter = 0
    /\ kh_bounds_storage = EmptyDict
    /\ kh_iter_storage = EmptyDict
    /\ kh_palette_storage = EmptyDict
    /\ kh_fractal_histories = EmptyDict
    /\ kh_fractal_history_indices = EmptyDict
    /\ kh_render_requested = FALSE
    /\ kh_log = <<>>
    /\ kh_ops = 0

\* FractalExplorer.__init__, lines 73-116: the Mandelbrot default view is
\* loaded, pushed as the first history entry and rendered.
KhInit ==
    LET bs == Put(EmptyDict, "mandelbrot", 0)
        state == KhState(bs, "mandelbrot", {}, "smooth", DEFAULT_ITERATIONS)
        r == push_current_state(EmptyDict, EmptyDict, "mandelbrot", state)
    IN /\ kh_fractal_name = "mandelbrot"
       /\ kh_fractal_params = {}
       /\ kh_palette_name = "smooth"
       /\ kh_max_iter = DEFAULT_ITERATIONS
       /\ kh_bounds_storage = bs
       /\ kh_iter_storage = EmptyDict
       /\ kh_palette_storage = EmptyDict
       /\ kh_fractal_histories = r.H
       /\ kh_fractal_history_indices = r.I
       /\ kh_render_requested = TRUE
       /\ kh_log = <<KhLogPush(r, state)>>
       /\ kh_ops = 0

\* ZoomController.zoom / _selection_zoom: set_bounds(new bounds), push, render
ZoomController_zoom(b) ==
    /\ kh_ops < KhMaxOps
    /\ KhPushAndRender(kh_fractal_params, kh_palette_name, kh_max_iter,
                       Put(kh_bounds_storage, kh_fractal_name, b),
                       kh_iter_storage, kh_palette_storage)
    /\ UNCHANGED khOther

\* reset_view, lines 157-166
reset_view ==
    /\ kh_ops < KhMaxOps
    /\ KhPushAndRender(kh_fractal_params, kh_palette_name, DEFAULT_ITERATIONS,
                       Put(kh_bounds_storage, kh_fractal_name, 0),
                       Put(kh_iter_storage, kh_fractal_name, DEFAULT_ITERATIONS),
                       kh_palette_storage)
    /\ UNCHANGED khOther

\* _on_palette_change, lines 380-387
on_palette_change(p) ==
    /\ kh_ops < KhMaxOps
    /\ KhPushAndRender(kh_fractal_params, p, kh_max_iter, kh_bounds_storage,
                       kh_iter_storage, Put(kh_palette_storage, kh_fractal_name, p))
    /\ UNCHANGED khOther

\* _on_param_change, lines 389-394, bound to <Return> in the parameter's
\* text entry: every parameter takes the value of its entry.
on_param_change(v) ==
    /\ kh_ops < KhMaxOps
    /\ KhParamNames(kh_fractal_name) # {}
    /\ KhPushAndRender({<<n, v>> : n \in KhParamNames(kh_fractal_name)},
                       kh_palette_name, kh_max_iter, kh_bounds_storage,
                       kh_iter_storage, kh_palette_storage)
    /\ UNCHANGED khOther

\* _on_slider_release, lines 400-405
on_slider_release(v) ==
    /\ kh_ops < KhMaxOps
    /\ KhPushAndRender(kh_fractal_params, kh_palette_name, v, kh_bounds_storage,
                       Put(kh_iter_storage, kh_fractal_name, v), kh_palette_storage)
    /\ UNCHANGED khOther

\* _do_resize, lines 419-459, for a changed canvas size: the bounds are
\* adjusted and rendered, nothing is pushed.
do_resize(b) ==
    /\ kh_ops < KhMaxOps
    /\ kh_bounds_storage' = Put(kh_bounds_storage, kh_fractal_name, b)
    /\ kh_render_requested' = TRUE
    /\ kh_ops' = kh_ops + 1
    /\ UNCHANGED <<kh_fractal_name, kh_fractal_params, kh_palette_name, kh_max_iter,
                   kh_iter_storage, kh_palette_storage, kh_fractal_histories,
                   kh_fractal_history_indices>>
    /\ kh_log' = KhLogAppend(kh_log, [op |-> "other", state |-> AppState', moved |-> FALSE])
    /\ UNCHANGED khOther

\* go_back testing history_index >= 0 instead of history_index > 0: from
\* the oldest entry the cursor goes to -1 and history[-1], the newest
\* entry, is restored.
KhNavigate_back_off_by_one(delta, op) ==
    LET history_index == Get(kh_fractal_history_indices, kh_fractal_name, -1)
        history == Get(kh_fractal_histories, kh_fractal_name, <<>>)
        can == IF delta < 0 THEN history_index >= 0 ELSE history_index < Len(history) - 1
        entry == IF history_index + delta < 0
                 THEN history[Len(history)] ELSE history[history_index + delta + 1]
        rs == restore_state(entry, kh_fractal_name,
                            kh_fractal_params, kh_palette_name, kh_max_iter,
                            kh_bounds_storage, kh_iter_storage, kh_palette_storage)
    IN /\ kh_ops < KhMaxOps
       /\ kh_ops' = kh_ops + 1
       /\ kh_render_requested' = can
       /\ UNCHANGED <<kh_fractal_name, kh_fractal_histories>>
       /\ IF can
          THEN /\ kh_fractal_history_indices' =
                      Put(kh_fractal_history_indices, kh_fractal_name, history_index + delta)
               /\ kh_fractal_params' = rs.fractal_params
               /\ kh_palette_name' = rs.palette_name
               /\ kh_palette_storage' = rs.palette_storage
               /\ kh_max_iter' = rs.max_iter
               /\ kh_iter_storage' = rs.iter_storage
               /\ kh_bounds_storage' = rs.bounds_storage
          ELSE UNCHANGED <<kh_fractal_history_indices, kh_fractal_params, kh_palette_name,
                           kh_palette_storage, kh_max_iter, kh_iter_storage,
                           kh_bounds_storage>>
       /\ kh_log' = KhLogAppend(kh_log, [op |-> op, state |-> AppState', moved |-> can])

\* go_back / go_forward calling render() also when the cursor cannot move.
KhNavigate_always_render(delta, op) ==
    LET history_index == Get(kh_fractal_history_indices, kh_fractal_name, -1)
        history == Get(kh_fractal_histories, kh_fractal_name, <<>>)
        can == IF delta < 0 THEN history_index > 0 ELSE history_index < Len(history) - 1
        rs == restore_state(history[history_index + delta + 1], kh_fractal_name,
                            kh_fractal_params, kh_palette_name, kh_max_iter,
                            kh_bounds_storage, kh_iter_storage, kh_palette_storage)
    IN /\ kh_ops < KhMaxOps
       /\ kh_ops' = kh_ops + 1
       /\ kh_render_requested' = TRUE
       /\ UNCHANGED <<kh_fractal_name, kh_fractal_histories>>
       /\ IF can
          THEN /\ kh_fractal_history_indices' =
                      Put(kh_fractal_history_indices, kh_fractal_name, history_index + delta)
               /\ kh_fractal_params' = rs.fractal_params
               /\ kh_palette_name' = rs.palette_name
               /\ kh_palette_storage' = rs.palette_storage
               /\ kh_max_iter' = rs.max_iter
               /\ kh_iter_storage' = rs.iter_storage
               /\ kh_bounds_storage' = rs.bounds_storage
          ELSE UNCHANGED <<kh_fractal_history_indices, kh_fractal_params, kh_palette_name,
                           kh_palette_storage, kh_max_iter, kh_iter_storage,
                           kh_bounds_storage>>
       /\ kh_log' = KhLogAppend(kh_log, [op |-> op, state |-> AppState', moved |-> can])

\* go_back (lines 251-258) for delta = -1 and go_forward (lines 260-267) for
\* delta = 1: move the cursor and _restore_state the entry under it, or
\* do nothing at the end of the list.
KhNavigate(delta, op) ==
    LET history_index == Get(kh_fractal_history_indices, kh_fractal_name, -1)
        history == Get(kh_fractal_histories, kh_fractal_name, <<>>)
        can == IF delta < 0 THEN history_index > 0 ELSE history_index < Len(history) - 1
        rs == restore_state(history[history_index + delta + 1], kh_fractal_name,
                            kh_fractal_params, kh_palette_name, kh_max_iter,
                            kh_bounds_storage, kh_iter_storage, kh_palette_storage)
    IN /\ kh_ops < KhMaxOps
       /\ kh_ops' = kh_ops + 1
       /\ kh_render_requested' = can
       /\ UNCHANGED <<kh_fractal_name, kh_fractal_histories>>
       /\ IF can
          THEN /\ kh_fractal_history_indices' =
                      Put(kh_fractal_history_indices, kh_fractal_name, history_index + delta)
               /\ kh_fractal_params' = rs.fractal_params
               /\ kh_palette_name' = rs.palette_name
               /\ kh_palette_storage' = rs.palette_storage
               /\ kh_max_iter' = rs.max_iter
               /\ kh_iter_storage' = rs.iter_storage
               /\ kh_bounds_storage' = rs.bounds_storage
          ELSE UNCHANGED <<kh_fractal_history_indices, kh_fractal_params, kh_palette_name,
                           kh_palette_storage, kh_max_iter, kh_iter_storage,
                           kh_bounds_storage>>
       /\ kh_log' = KhLogAppend(kh_log, [op |-> op, state |-> AppState', moved |-> can])

go_back ==
    /\ KhNavigate(-1, "back")
    /\ UNCHANGED khOther

go_forward ==
    /\ KhNavigate(1, "forward")
    /\ UNCHANGED khOther

\* _on_fractal_change, lines 314-370, for the selected fractal new
on_fractal_change(new) ==
    LET old == kh_fractal_name
        bs1 == Put(kh_bounds_storage, old, Get(kh_bounds_storage, old, 0))
        is1 == Put(kh_iter_storage, old, kh_max_iter)
        ps1 == Put(kh_palette_storage, old, kh_palette_name)
        r1 == push_current_state(kh_fractal_histories, kh_fractal_history_indices, old,
                                 KhState(bs1, old, kh_fractal_params, kh_palette_name, kh_max_iter))
        H2 == IF new \in DOMAIN r1.H THEN r1.H ELSE Put(r1.H, new, <<>>)
        I2 == IF new \in DOMAIN r1.H THEN r1.I ELSE Put(r1.I, new, -1)
        bs2 == IF new \in DOMAIN bs1 THEN bs1 ELSE Put(bs1, new, 0)
        iter == Get(is1, new, DEFAULT_ITERATIONS)
        saved_palette == Get(ps1, new, "")
        palette == IF saved_palette # "" /\ saved_palette \in KhPalettes
                   THEN saved_palette ELSE "smooth"
        state == KhState(bs2, new, {}, palette, iter)
        r2 == push_current_state(H2, I2, new, state)
    IN /\ kh_ops < KhMaxOps
       /\ kh_ops' = kh_ops + 1
       /\ kh_fractal_name' = new
       /\ kh_fractal_params' = {}
       /\ kh_bounds_storage' = bs2
       /\ kh_iter_storage' = is1
       /\ kh_palette_storage' = ps1
       /\ kh_max_iter' = iter
       /\ kh_palette_name' = palette
       /\ kh_fractal_histories' = r2.H
       /\ kh_fractal_history_indices' = r2.I
       /\ kh_log' = <<KhLogPush(r2, state)>>
       /\ kh_render_requested' = TRUE
       /\ UNCHANGED khOther

KhNext ==
    \/ \E b \in KhViews : ZoomController_zoom(b)
    \/ reset_view
    \/ \E p \in KhPalettes : on_palette_change(p)
    \/ \E v \in KhParamValues : on_param_change(v)
    \/ \E v \in KhIters : on_slider_release(v)
    \/ \E b \in KhViews : do_resize(b)
    \/ go_back
    \/ go_forward
    \/ \E new \in KhFractals : on_fractal_change(new)

\* ==================================================================
\* qwen3-coder-next  fractal_explorer.py  FractalApp zoom history
\* ==================================================================
\* View bounds are abstracted to identifiers 0 .. QwMaxView, 0 being the
\* fractal's get_default_bounds().

QwFractals == {"mandelbrot", "julia"}
QwPalettes == {"smooth", "fire"}
QwIterations == {200, 500}
QwViews == 0 .. QwMaxView

\* fractal_states[name] == {} (line 49): none of the keys is present.
QwNoState ==
    [has_bounds |-> FALSE, zoom_bounds |-> 0, palette |-> "", iterations |-> 0,
     has_history |-> FALSE, zoom_history |-> <<>>, zoom_history_pos |-> -1]

\* The history part of render(), lines 453-483: the forward entries are cut
\* off when the cursor is not on the last entry, then the bounds are appended
\* unless they equal the last entry.
FractalApp_render(history, pos, bounds) ==
    LET kept == IF pos < Len(history) - 1 THEN SubSeq(history, 1, pos + 1) ELSE history
        should_add == ~(Len(kept) > 0 /\ kept[Len(kept)] = bounds)
    IN IF should_add
       THEN [history |-> Append(kept, bounds), pos |-> Len(kept)]
       ELSE [history |-> kept, pos |-> pos]

QwLast(op) ==
    [op |-> op, from |-> qw_current_fractal_name,
     history |-> qw_zoom_history[qw_current_fractal_name],
     pos |-> qw_zoom_history_pos[qw_current_fractal_name],
     pure |-> /\ qw_zoom_history_pos[qw_current_fractal_name] >= 0
              /\ qw_zoom_history_pos[qw_current_fractal_name]
                     < Len(qw_zoom_history[qw_current_fractal_name])
              /\ qw_zoom_history[qw_current_fractal_name]
                     [qw_zoom_history_pos[qw_current_fractal_name] + 1] = qw_bounds]

\* A handler of the current fractal that ends in render(): bounds, palette
\* and iterations are what the handler set before the call.
QwRenderStep(op, bounds, palette, iterations) ==
    LET name == qw_current_fractal_name
        r == FractalApp_render(qw_zoom_history[name], qw_zoom_history_pos[name], bounds)
    IN /\ qw_ops < QwMaxOps
       /\ qw_ops' = qw_ops + 1
       /\ qw_bounds' = bounds
       /\ qw_current_palette_name' = palette
       /\ qw_iterations' = iterations
       /\ qw_zoom_history' = [qw_zoom_history EXCEPT ![name] = r.history]
       /\ qw_zoom_history_pos' = [qw_zoom_history_pos EXCEPT ![name] = r.pos]
       /\ qw_last' = QwLast(op)
       /\ UNCHANGED <<qw_current_fractal_name, qw_fractal_states, qw_left>>

QwIdle ==
    /\ qw_current_fractal_name = ""
    /\ qw_bounds = 0
    /\ qw_current_palette_name = ""
    /\ qw_iterations = 0
    /\ qw_zoom_history = <<>>
    /\ qw_zoom_history_pos = <<>>
    /\ qw_fractal_states = <<>>
    /\ qw_last = <<>>
    /\ qw_left = <<>>
    /\ qw_ops = 0

\* FractalApp.__init__, lines 30-53: load_fractal("mandelbrot") renders the
\* default view, which becomes the first history entry.
QwInit ==
    LET r == FractalApp_render(<<>>, -1, 0)
    IN /\ qw_current_fractal_name = "mandelbrot"
       /\ qw_bounds = 0
       /\ qw_current_palette_name = "smooth"
       /\ qw_iterations = 200
       /\ qw_zoom_history = [n \in QwFractals |-> IF n = "mandelbrot" THEN r.history ELSE <<>>]
       /\ qw_zoom_history_pos = [n \in QwFractals |-> IF n = "mandelbrot" THEN r.pos ELSE -1]
       /\ qw_fractal_states = [n \in QwFractals |-> QwNoState]
       /\ qw_last = [op |-> "init", from |-> "mandelbrot", history |-> <<>>, pos |-> -1,
                     pure |-> FALSE]
       /\ qw_left = [n \in QwFractals |-> [valid |-> FALSE, history |-> <<>>, pos |-> -1]]
       /\ qw_ops = 0

\* on_palette_change, lines 181-194: load_palette(name) and render()
FractalApp_on_palette_change(p) ==
    /\ QwRenderStep("palette", qw_bounds, p, qw_iterations)
    /\ UNCHANGED qwOther

\* on_iteration_change, lines 196-201, on slider release
FractalApp_on_iteration_change(v) ==
    /\ QwRenderStep("iteration", qw_bounds, qw_current_palette_name, v)
    /\ UNCHANGED qwOther

\* on_resize, lines 284-292
FractalApp_on_resize ==
    /\ QwRenderStep("resize", qw_bounds, qw_current_palette_name, qw_iterations)
    /\ UNCHANGED qwOther

\* on_mouse_up, lines 550-571, for a drag larger than 5 pixels: zoom_rect
\* to the bounds b and render()
FractalApp_on_mouse_up(b) ==
    /\ QwRenderStep("mouse_up", b, qw_current_palette_name, qw_iterations)
    /\ UNCHANGED qwOther

\* on_wheel, lines 573-586: zoom_at by 0.9 or 1.1 and render()
FractalApp_on_wheel(b) ==
    /\ b # qw_bounds
    /\ QwRenderStep("wheel", b, qw_current_palette_name, qw_iterations)
    /\ UNCHANGED qwOther

\* on_navigate_back (lines 321-342) for delta = -1, on_navigate_forward
\* (lines 387-408) for delta = 1: move the cursor, set the bounds of the
\* entry under it and render_with_bounds, which leaves the history alone.
QwNavigate(delta, op) ==
    LET name == qw_current_fractal_name
        pos == qw_zoom_history_pos[name]
        history == qw_zoom_history[name]
        can == /\ Len(history) > 0
               /\ IF delta < 0 THEN pos > 0 ELSE pos < Len(history) - 1
    IN /\ qw_ops < QwMaxOps
       /\ qw_ops' = qw_ops + 1
       /\ qw_last' = QwLast(op)
       /\ IF can
          THEN /\ qw_zoom_history_pos' = [qw_zoom_history_pos EXCEPT ![name] = pos + delta]
               /\ qw_bounds' = history[pos + delta + 1]
          ELSE UNCHANGED <<qw_zoom_history_pos, qw_bounds>>
       /\ UNCHANGED <<qw_current_fractal_name, qw_current_palette_name, qw_iterations,
                      qw_zoom_history, qw_fractal_states, qw_left>>

FractalApp_on_navigate_back ==
    /\ QwNavigate(-1, "back")
    /\ UNCHANGED qwOther

FractalApp_on_navigate_forward ==
    /\ QwNavigate(1, "forward")
    /\ UNCHANGED qwOther

\* on_reset_view, lines 410-434: default bounds, the history and its saved
\* copy are emptied, then render() pushes the default view.
FractalApp_on_reset_view ==
    LET name == qw_current_fractal_name
        r == FractalApp_render(<<>>, -1, 0)
    IN /\ qw_ops < QwMaxOps
       /\ qw_ops' = qw_ops + 1
       /\ qw_bounds' = 0
       /\ qw_zoom_history' = [qw_zoom_history EXCEPT ![name] = r.history]
       /\ qw_zoom_history_pos' = [qw_zoom_history_pos EXCEPT ![name] = r.pos]
       /\ qw_fractal_states' = [qw_fractal_states EXCEPT
                                   ![name].has_history = TRUE,
                                   ![name].zoom_history = <<>>,
                                   ![name].zoom_history_pos = -1]
       /\ qw_last' = QwLast("reset")
       /\ UNCHANGED <<qw_current_fractal_name, qw_current_palette_name, qw_iterations, qw_left>>
       /\ UNCHANGED qwOther

\* on_fractal_change (lines 157-179) and load_fractal (lines 203-259) for the
\* selected fractal new: the state of the fractal being left is saved, the
\* saved state of new is restored, and render() is called.
FractalApp_on_fractal_change(new) ==
    LET old == qw_current_fractal_name
        saved == [has_bounds |-> TRUE, zoom_bounds |-> qw_bounds,
                  palette |-> qw_current_palette_name, iterations |-> qw_iterations,
                  has_history |-> TRUE, zoom_history |-> qw_zoom_history[old],
                  zoom_history_pos |-> qw_zoom_history_pos[old]]
        states == [qw_fractal_states EXCEPT ![old] = saved]
        state == states[new]
        bounds == IF state.has_bounds THEN state.zoom_bounds ELSE 0
        H1 == IF state.has_history
              THEN [qw_zoom_history EXCEPT ![new] = state.zoom_history] ELSE qw_zoom_history
        P1 == IF state.has_history
              THEN [qw_zoom_history_pos EXCEPT ![new] = state.zoom_history_pos]
              ELSE qw_zoom_history_pos
        r == FractalApp_render(H1[new], P1[new], bounds)
    IN /\ qw_ops < QwMaxOps
       /\ qw_ops' = qw_ops + 1
       /\ qw_fractal_states' = states
       /\ qw_current_fractal_name' = new
       /\ qw_bounds' = bounds
       /\ qw_current_palette_name' =
              IF state.has_bounds THEN state.palette ELSE qw_current_palette_name
       /\ qw_iterations' = IF state.has_bounds THEN state.iterations ELSE qw_iterations
       /\ qw_zoom_history' = [H1 EXCEPT ![new] = r.history]
       /\ qw_zoom_history_pos' = [P1 EXCEPT ![new] = r.pos]
       /\ qw_last' = QwLast("fractal_change")
       /\ qw_left' = IF new = old THEN qw_left
                     ELSE [qw_left EXCEPT ![old] =
                              [valid |-> TRUE, history |-> qw_zoom_history[old],
                               pos |-> qw_zoom_history_pos[old]]]
       /\ UNCHANGED qwOther

QwNext ==
    \/ \E p \in QwPalettes : FractalApp_on_palette_change(p)
    \/ \E v \in QwIterations : FractalApp_on_iteration_change(v)
    \/ FractalApp_on_resize
    \/ \E b \in QwViews : FractalApp_on_mouse_up(b)
    \/ \E b \in QwViews : FractalApp_on_wheel(b)
    \/ FractalApp_on_navigate_back
    \/ FractalApp_on_navigate_forward
    \/ FractalApp_on_reset_view
    \/ \E new \in QwFractals : FractalApp_on_fractal_change(new)

\* ==================================================================
\* claude-opus  fractal_generator/state.py, app.py  zoom history
\* ==================================================================
\* Plane coordinates are in tenths; bounds are <<x_min, x_max, y_min, y_max>>.
\* A parameter dict is the set of its <<name, value>> items.

ZoomHistory_MAX_HISTORY_SIZE == 50
FractalApp_DEFAULT_ITERATIONS == 100

OhFractals == {"mandelbrot", "julia"}
OhXs == {-25, -20, 10, 20}
OhYs == {-15, 0, 15}
OhIters == {FractalApp_DEFAULT_ITERATIONS, 2 * FractalApp_DEFAULT_ITERATIONS}
OhParamValues == {0, 1}

\* default_bounds of MandelbrotFractal (fractals.py 82-83) and JuliaFractal (134-135)
default_bounds(fractal) ==
    IF fractal = "julia" THEN <<-20, 20, -15, 15>> ELSE <<-25, 10, -15, 15>>

\* the parameters of a freshly created fractal: JuliaFractal.parameters
\* (reduced to c_real, 0 standing for its default), none for Mandelbrot
OhNewParameters(fractal) == IF fractal = "julia" THEN {<<"c_real", 0>>} ELSE {}

\* set_parameter for every item of upd on a fractal whose parameters are params
OhSetParameters(params, upd) ==
    {q \in params : \A u \in upd : u[1] # q[1]}
        \cup {u \in upd : \E q \in params : q[1] = u[1]}

\* FractalState() with the dataclass defaults, state.py lines 29-36
FractalState_default ==
    [bounds |-> <<-25, 10, -15, 15>>, max_iter |-> 100, parameters |-> {}]

OhView(bounds, max_iter, parameters) ==
    [bounds |-> bounds, max_iter |-> max_iter, parameters |-> parameters]

\* ZoomHistory.__init__, lines 80-82
ZoomHistory_new == [history |-> <<>>, future |-> <<>>]

\* ZoomHistory.push without the size limit of lines 92-94.
ZoomHistory_push_unlimited(zh, state) ==
    [history |-> Append(zh.history, state), future |-> <<>>]

\* ZoomHistory.push, lines 84-94
ZoomHistory_push(zh, state) ==
    LET h == Append(zh.history, state)
    IN [history |-> IF Len(h) > ZoomHistory_MAX_HISTORY_SIZE THEN Tail(h) ELSE h,
        future |-> <<>>]

\* ZoomHistory.undo, lines 104-121: [zh, view], view the returned state
ZoomHistory_undo(zh, current_state) ==
    IF zh.history = <<>> THEN [zh |-> zh, ok |-> FALSE, view |-> current_state]
    ELSE [zh |-> [history |-> SubSeq(zh.history, 1, Len(zh.history) - 1),
                  future |-> Append(zh.future, current_state)],
          ok |-> TRUE, view |-> zh.history[Len(zh.history)]]

\* ZoomHistory.redo that does not put current_state back on the history.
ZoomHistory_redo_drop_current(zh, current_state) ==
    IF zh.future = <<>> THEN [zh |-> zh, ok |-> FALSE, view |-> current_state]
    ELSE [zh |-> [history |-> zh.history,
                  future |-> SubSeq(zh.future, 1, Len(zh.future) - 1)],
          ok |-> TRUE, view |-> zh.future[Len(zh.future)]]

\* ZoomHistory.redo, lines 123-140
ZoomHistory_redo(zh, current_state) ==
    IF zh.future = <<>> THEN [zh |-> zh, ok |-> FALSE, view |-> current_state]
    ELSE [zh |-> [history |-> Append(zh.history, current_state),
                  future |-> SubSeq(zh.future, 1, Len(zh.future) - 1)],
          ok |-> TRUE, view |-> zh.future[Len(zh.future)]]

\* SessionState.get_state, lines 172-176, read only
SessionState_get_state(states, name) ==
    IF name \in DOMAIN states THEN states[name] ELSE FractalState_default

\* SessionState.save_state, lines 184-199
SessionState_save_state(states, name, bounds, max_iter, parameters) ==
    LET state == SessionState_get_state(states, name)
    IN Put(states, name,
           [bounds |-> bounds, max_iter |-> max_iter,
            parameters |-> IF parameters # {} THEN parameters ELSE state.parameters])

\* _push_current_to_history, lines 473-485
OhPushCurrent ==
    [oh_histories EXCEPT ![oh_current_fractal] =
        ZoomHistory_push(@, OhView(oh_bounds, oh_max_iter, oh_parameters))]

OhNoTask == [phase |-> "none", view |-> OhView(<<0, 0, 0, 0>>, 0, {})]

\* _render, lines 688-750, in the main thread: nothing while a render is in
\* flight, otherwise _is_rendering is set and the render thread is started.
OhRender(op) ==
    /\ oh_is_rendering' = TRUE
    /\ oh_task' = IF oh_is_rendering THEN oh_task ELSE [OhNoTask EXCEPT !.phase = "started"]
    /\ oh_last' = op
    /\ oh_ops' = oh_ops + 1


OhIdle ==
    /\ oh_current_fractal = "idle"
    /\ oh_bounds = <<0, 0, 0, 0>>
    /\ oh_max_iter = 0
    /\ oh_parameters = {}
    /\ oh_states = EmptyDict
    /\ oh_histories = EmptyDict
    /\ oh_is_rendering = FALSE
    /\ oh_selection_start = FALSE
    /\ oh_task = OhNoTask
    /\ oh_displayed = OhNoTask.view
    /\ oh_last = "idle"
    /\ oh_ops = 0

\* FractalApp.__init__ followed by _initialize_fractal (lines 30-71, 265-272):
\* the first fractal is selected at its default bounds and its render started.
OhInit ==
    /\ oh_current_fractal = "mandelbrot"
    /\ oh_bounds = default_bounds("mandelbrot")
    /\ oh_max_iter = FractalApp_DEFAULT_ITERATIONS
    /\ oh_parameters = OhNewParameters("mandelbrot")
    /\ oh_states = Put(EmptyDict, "mandelbrot", FractalState_default)
    /\ oh_histories = [f \in OhFractals |-> ZoomHistory_new]
    /\ oh_is_rendering = TRUE
    /\ oh_selection_start = FALSE
    /\ oh_task = [OhNoTask EXCEPT !.phase = "started"]
    /\ oh_displayed = OhNoTask.view
    /\ oh_last = "init"
    /\ oh_ops = 0

\* _on_fractal_changed -> _select_fractal, lines 376-384, 274-313; the combo
\* box is disabled while a render is in flight (_set_controls_state).
OpusApp_select_fractal(fractal_name) ==
    /\ oh_ops < OhMaxOps
    /\ ~oh_is_rendering
    /\ LET saved == SessionState_save_state(oh_states, oh_current_fractal,
                        oh_bounds, oh_max_iter, oh_parameters)
           state == SessionState_get_state(saved, fractal_name)
       IN /\ oh_states' = Put(saved, fractal_name, state)
          /\ oh_current_fractal' = fractal_name
          /\ oh_bounds' = IF state.bounds[1] = -25 /\ state.bounds[2] = 10
                          THEN default_bounds(fractal_name) ELSE state.bounds
          /\ oh_max_iter' = state.max_iter
          /\ oh_parameters' = OhSetParameters(OhNewParameters(fractal_name),
                                              state.parameters)
    /\ OhRender("select_fractal")
    /\ UNCHANGED <<oh_histories, oh_selection_start, oh_displayed>>
    /\ UNCHANGED ohOther

\* _on_palette_changed, lines 386-389 (combo box disabled while rendering)
OpusApp_on_palette_changed ==
    /\ oh_ops < OhMaxOps
    /\ ~oh_is_rendering
    /\ OhRender("palette")
    /\ UNCHANGED <<oh_current_fractal, oh_bounds, oh_max_iter, oh_parameters,
                   oh_states, oh_histories, oh_selection_start, oh_displayed>>
    /\ UNCHANGED ohOther

\* _on_iteration_changed, lines 391-396: no render until the slider is released
OpusApp_on_iteration_changed(value) ==
    /\ oh_ops < OhMaxOps
    /\ value # oh_max_iter
    /\ oh_max_iter' = value
    /\ oh_last' = "iteration"
    /\ oh_ops' = oh_ops + 1
    /\ UNCHANGED <<oh_current_fractal, oh_bounds, oh_parameters, oh_states,
                   oh_histories, oh_is_rendering, oh_selection_start, oh_task,
                   oh_displayed>>
    /\ UNCHANGED ohOther

\* _on_iteration_released, lines 398-400
OpusApp_on_iteration_released ==
    /\ oh_ops < OhMaxOps
    /\ OhRender("iteration_released")
    /\ UNCHANGED <<oh_current_fractal, oh_bounds, oh_max_iter, oh_parameters,
                   oh_states, oh_histories, oh_selection_start, oh_displayed>>
    /\ UNCHANGED ohOther

\* _on_param_changed, lines 362-374, for a fractal that has parameter widgets
OpusApp_on_param_changed(value) ==
    /\ oh_ops < OhMaxOps
    /\ oh_parameters # {}
    /\ oh_parameters' = OhSetParameters(oh_parameters, {<<"c_real", value>>})
    /\ OhRender("param")
    /\ UNCHANGED <<oh_current_fractal, oh_bounds, oh_max_iter, oh_states,
                   oh_histories, oh_selection_start, oh_displayed>>
    /\ UNCHANGED ohOther

\* _on_reset_view, lines 407-416 (button, or the r key at any time)
OpusApp_on_reset_view ==
    /\ oh_ops < OhMaxOps
    /\ oh_histories' = OhPushCurrent
    /\ oh_bounds' = default_bounds(oh_current_fractal)
    /\ OhRender("reset_view")
    /\ UNCHANGED <<oh_current_fractal, oh_max_iter, oh_parameters, oh_states,
                   oh_selection_start, oh_displayed>>
    /\ UNCHANGED ohOther

\* _apply_view_state, lines 457-471, then _render
OhApplyAndRender(r, op) ==
    /\ oh_histories' = [oh_histories EXCEPT ![oh_current_fractal] = r.zh]
    /\ oh_bounds' = r.view.bounds
    /\ oh_max_iter' = r.view.max_iter
    /\ oh_parameters' = IF r.view.parameters # {}
                        THEN OhSetParameters(oh_parameters, r.view.parameters)
                        ELSE oh_parameters
    /\ OhRender(op)

\* _on_undo_zoom, lines 418-430 (button, or Ctrl-Z at any time)
OpusApp_on_undo_zoom ==
    /\ oh_ops < OhMaxOps
    /\ LET r == ZoomHistory_undo(oh_histories[oh_current_fractal],
                    OhView(oh_bounds, oh_max_iter, oh_parameters))
       IN /\ r.ok
          /\ OhApplyAndRender(r, "undo")
    /\ UNCHANGED <<oh_current_fractal, oh_states, oh_selection_start, oh_displayed>>
    /\ UNCHANGED ohOther

\* _on_redo_zoom, lines 432-444 (button, or Ctrl-Y at any time)
OpusApp_on_redo_zoom ==
    /\ oh_ops < OhMaxOps
    /\ LET r == ZoomHistory_redo(oh_histories[oh_current_fractal],
                    OhView(oh_bounds, oh_max_iter, oh_parameters))
       IN /\ r.ok
          /\ OhApplyAndRender(r, "redo")
    /\ UNCHANGED <<oh_current_fractal, oh_states, oh_selection_start, oh_displayed>>
    /\ UNCHANGED ohOther

\* _on_mouse_down, lines 536-550
OpusApp_on_mouse_down ==
    /\ ~oh_is_rendering
    /\ ~oh_selection_start
    /\ oh_selection_start' = TRUE
    /\ oh_last' = "mouse_down"
    /\ UNCHANGED <<oh_current_fractal, oh_bounds, oh_max_iter, oh_parameters,
                   oh_states, oh_histories, oh_is_rendering, oh_task,
                   oh_displayed, oh_ops>>
    /\ UNCHANGED ohOther

\* _on_mouse_up, lines 561-608, with a selection of at least 10 x 10 pixels:
\* the selected rectangle, which lies inside the canvas, becomes the view.
OpusApp_on_mouse_up(b) ==
    /\ oh_ops < OhMaxOps
    /\ oh_selection_start
    /\ oh_bounds[1] <= b[1] /\ b[1] < b[2] /\ b[2] <= oh_bounds[2]
    /\ oh_bounds[3] <= b[3] /\ b[3] < b[4] /\ b[4] <= oh_bounds[4]
    /\ oh_selection_start' = FALSE
    /\ oh_histories' = OhPushCurrent
    /\ oh_bounds' = b
    /\ OhRender("mouse_up")
    /\ UNCHANGED <<oh_current_fractal, oh_max_iter, oh_parameters, oh_states,
                   oh_displayed>>
    /\ UNCHANGED ohOther

\* render_task, lines 713-743: the thread reads the view when it runs
OpusApp_render_task ==
    /\ oh_task.phase = "started"
    /\ oh_task' = [phase |-> "done",
                   view |-> OhView(oh_bounds, oh_max_iter, oh_parameters)]
    /\ UNCHANGED <<oh_current_fractal, oh_bounds, oh_max_iter, oh_parameters,
                   oh_states, oh_histories, oh_is_rendering, oh_selection_start,
                   oh_displayed, oh_last, oh_ops>>
    /\ UNCHANGED ohOther

\* _display_pixels, lines 756-785
OpusApp_display_pixels ==
    /\ oh_task.phase = "done"
    /\ oh_displayed' = oh_task.view
    /\ oh_is_rendering' = FALSE
    /\ oh_task' = OhNoTask
    /\ UNCHANGED <<oh_current_fractal, oh_bounds, oh_max_iter, oh_parameters,
                   oh_states, oh_histories, oh_selection_start, oh_last, oh_ops>>
    /\ UNCHANGED ohOther

OhNext ==
    \/ \E f \in OhFractals : OpusApp_select_fractal(f)
    \/ OpusApp_on_palette_changed
    \/ \E v \in OhIters : OpusApp_on_iteration_changed(v)
    \/ OpusApp_on_iteration_released
    \/ \E v \in OhParamValues : OpusApp_on_param_changed(v)
    \/ OpusApp_on_reset_view
    \/ OpusApp_on_undo_zoom
    \/ OpusApp_on_redo_zoom
    \/ OpusApp_on_mouse_down
    \/ \E b \in OhXs \X OhXs \X OhYs \X OhYs : OpusApp_on_mouse_up(b)
    \/ OpusApp_render_task
    \/ OpusApp_display_pixels

\* ==================================================================
\* kimi-k2.5  fractal_explorer.py  view history at its capacity
\* ==================================================================
\* One fractal, zoomed between two views and walked back and forward;
\* parameters, palette and iteration count stay at their start values.

KcViews == {0, 1}

KcState(bs) == KhState(bs, "mandelbrot", {}, "smooth", DEFAULT_ITERATIONS)

KcIdle ==
    /\ kc_fractal_histories = EmptyDict
    /\ kc_fractal_history_indices = EmptyDict
    /\ kc_bounds_storage = EmptyDict
    /\ kc_last = [op |-> "idle", appended |-> FALSE, size |-> 0]

\* FractalExplorer.__init__: the default view is pushed as the first entry
KcInit ==
    LET bs == Put(EmptyDict, "mandelbrot", 0)
        r == push_current_state(EmptyDict, EmptyDict, "mandelbrot", KcState(bs))
    IN /\ kc_bounds_storage = bs
       /\ kc_fractal_histories = r.H
       /\ kc_fractal_history_indices = r.I
       /\ kc_last = [op |-> "init", appended |-> r.appended, size |-> 0]

\* ZoomController.zoom / _selection_zoom: set_bounds(new bounds), then
\* _push_current_state()
KcZoom(b) ==
    LET bs == Put(kc_bounds_storage, "mandelbrot", b)
        r == push_current_state(kc_fractal_histories, kc_fractal_history_indices,
                                "mandelbrot", KcState(bs))
    IN /\ kc_bounds_storage' = bs
       /\ kc_fractal_histories' = r.H
       /\ kc_fractal_history_indices' = r.I
       /\ kc_last' = [op |-> "zoom", appended |-> r.appended,
                      size |-> Len(kc_fractal_histories["mandelbrot"])]
       /\ UNCHANGED kcOther

\* go_back (delta -1), lines 251-258, and go_forward (delta 1), lines 260-267
KcNavigate(delta, op) ==
    LET history_index == kc_fractal_history_indices["mandelbrot"]
        history == kc_fractal_histories["mandelbrot"]
    IN /\ IF delta < 0 THEN history_index > 0 ELSE history_index < Len(history) - 1
       /\ kc_fractal_history_indices' =
              Put(kc_fractal_history_indices, "mandelbrot", history_index + delta)
       /\ kc_bounds_storage' =
              Put(kc_bounds_storage, "mandelbrot", history[history_index + delta + 1].bounds)
       /\ kc_last' = [op |-> op, appended |-> FALSE, size |-> Len(history)]
       /\ UNCHANGED kc_fractal_histories
       /\ UNCHANGED kcOther

KcGoBack == KcNavigate(-1, "go_back")

KcGoForward == KcNavigate(1, "go_forward")

KcNext ==
    \/ \E b \in KcViews : KcZoom(b)
    \/ KcGoBack
    \/ KcGoForward

\* ==================================================================
\* qwen3  rendering/parallel.py  ParallelRenderEngine.render_with_bounds
\* ==================================================================

\* FractalRenderer.render_row, lines 20-33: the pair (y, row_colors)
render_row(y) == <<y, "colors">>

\* results.sort(key=lambda x: x[0]), line 89, on results with distinct y
RECURSIVE QpSort(_)
QpSort(results) ==
    IF results = <<>> THEN <<>>
    ELSE LET i == CHOOSE i \in 1..Len(results) :
                      \A j \in 1..Len(results) : results[i][1] <= results[j][1]
         IN <<results[i]>> \o QpSort([k \in 1..(Len(results) - 1) |->
                                        IF k < i THEN results[k] ELSE results[k + 1]])

QpIdle ==
    /\ qp_height = 0
    /\ qp_num_workers = 0
    /\ qp_pending = {}
    /\ qp_results = <<>>
    /\ qp_progress = <<>>
    /\ qp_ret = "idle"

\* render_with_bounds up to the start of the loop, lines 77-83
QpInit ==
    /\ qp_height \in 1..QpMaxHeight
    /\ qp_num_workers \in 1..QpMaxWorkers
    /\ qp_pending = 0..(qp_height - 1)
    /\ qp_results = <<>>
    /\ qp_progress = <<>>
    /\ qp_ret = "running"

\* One pass of the loop, lines 84-87: imap_unordered yields the result of a
\* row that has completed.  Rows are handed to the pool in order, so a row
\* can have completed only if fewer than num_workers rows before it are
\* still outstanding.
QpYield(y) ==
    /\ qp_ret = "running"
    /\ y \in qp_pending
    /\ Cardinality({r \in qp_pending : r < y}) < qp_num_workers
    /\ qp_pending' = qp_pending \ {y}
    /\ qp_results' = Append(qp_results, render_row(y))
    /\ qp_progress' = Append(qp_progress, <<y + 1, qp_height>>)
    /\ UNCHANGED <<qp_height, qp_num_workers, qp_ret>>
    /\ UNCHANGED qpOther

\* After the loop, lines 89-96: the results are sorted by row and the image
\* is returned.
QpReturn ==
    /\ qp_ret = "running"
    /\ qp_pending = {}
    /\ qp_results' = QpSort(qp_results)
    /\ qp_ret' = "img"
    /\ UNCHANGED <<qp_height, qp_num_workers, qp_pending, qp_progress>>
    /\ UNCHANGED qpOther

QpNext ==
    \/ \E y \in 0..(QpMaxHeight - 1) : QpYield(y)
    \/ QpReturn

\* ==================================================================
\* kimi-k2.5  navigation/__init__.py  ZoomController
\* ==================================================================
\* The viewport is held exactly: xmin, xmax, ymin, ymax are numerators over
\* the common positive denominator den.

MIN_DRAG_THRESHOLD == 5
KzPixels == {0, 3, KzSize}

Abs(a) == IF a < 0 THEN -a ELSE a

RECURSIVE GCD(_, _)
GCD(a, b) == IF b = 0 THEN Abs(a) ELSE GCD(b, a % Abs(b))

\* the same viewport in lowest terms
KzBounds(xmin, xmax, ymin, ymax, den) ==
    LET g == GCD(GCD(GCD(xmin, xmax), GCD(ymin, ymax)), den)
    IN [xmin |-> xmin \div g, xmax |-> xmax \div g,
        ymin |-> ymin \div g, ymax |-> ymax \div g, den |-> den \div g]

\* screen_to_complex, lines 159-177: <<real, imag>> as numerators over
\* bounds.den * KzSize
screen_to_complex(bounds, x, y) ==
    <<bounds.xmin * KzSize + x * (bounds.xmax - bounds.xmin),
      bounds.ymax * KzSize - y * (bounds.ymax - bounds.ymin)>>

\* ZoomController.zoom, lines 102-134, with factor = fn / fd: the bounds
\* handed to set_bounds
zoom(bounds, x, y, fn, fd) ==
    LET c == screen_to_complex(bounds, x, y)
        x_range == (bounds.xmax - bounds.xmin) * fn
        y_range == (bounds.ymax - bounds.ymin) * fn
        new_x_min == c[1] * fd - x_range * x
        new_x_max == new_x_min + x_range * KzSize
        new_y_max == c[2] * fd + y_range * (KzSize - y)
        new_y_min == new_y_max - y_range * KzSize
    IN KzBounds(new_x_min, new_x_max, new_y_min, new_y_max, bounds.den * KzSize * fd)

\* ZoomController._selection_zoom, lines 138-155: the bounds handed to
\* set_bounds
selection_zoom(bounds, px1, py1, px2, py2) ==
    LET x1 == Min(px1, px2)
        x2 == Max(px1, px2)
        y1 == Min(py1, py2)
        y2 == Max(py1, py2)
        c1 == screen_to_complex(bounds, x1, y1)
        c2 == screen_to_complex(bounds, x2, y2)
    IN KzBounds(Min(c1[1], c2[1]), Max(c1[1], c2[1]),
                Min(c1[2], c2[2]), Max(c1[2], c2[2]), bounds.den * KzSize)

KzIdle ==
    /\ kz_bounds = [xmin |-> 0, xmax |-> 0, ymin |-> 0, ymax |-> 0, den |-> 0]
    /\ kz_drag_start = <<>>
    /\ kz_is_rendering = FALSE
    /\ kz_last = "idle"
    /\ kz_ops = 0

\* ZoomController.__init__, lines 17-27, on the default viewport of
\* FractalType.get_default_bounds (fractals/__init__.py 37-39), while the
\* first render runs
KzInit ==
    /\ kz_bounds = KzBounds(-2, 2, -2, 2, 1)
    /\ kz_drag_start = <<>>
    /\ kz_is_rendering = TRUE
    /\ kz_last = "none"
    /\ kz_ops = 0

\* _on_mouse_down, lines 39-44
ZoomController_on_mouse_down(x, y) ==
    /\ ~kz_is_rendering
    /\ kz_drag_start' = <<x, y>>
    /\ UNCHANGED <<kz_bounds, kz_is_rendering, kz_last, kz_ops>>
    /\ UNCHANGED kzOther

\* _on_mouse_up, lines 62-87: a click zooms in at the point, a drag zooms
\* to the selection; both end with set_bounds, _push_current_state, render
ZoomController_on_mouse_up(x2, y2) ==
    /\ kz_ops < KzMaxOps
    /\ kz_drag_start # <<>>
    /\ LET x1 == kz_drag_start[1]
           y1 == kz_drag_start[2]
           dx == Abs(x2 - x1)
           dy == Abs(y2 - y1)
       IN IF dx < MIN_DRAG_THRESHOLD /\ dy < MIN_DRAG_THRESHOLD
          THEN /\ kz_bounds' = zoom(kz_bounds, x2, y2, 1, 2)
               /\ kz_last' = "click"
          ELSE /\ kz_bounds' = selection_zoom(kz_bounds, x1, y1, x2, y2)
               /\ kz_last' = "selection"
    /\ kz_drag_start' = <<>>
    /\ kz_is_rendering' = TRUE
    /\ kz_ops' = kz_ops + 1
    /\ UNCHANGED kzOther

\* _on_mouse_wheel, lines 89-100: factor 0.8 (in) or 1.25 (out)
ZoomController_on_mouse_wheel(x, y, zoom_in) ==
    /\ kz_ops < KzMaxOps
    /\ ~kz_is_rendering
    /\ kz_bounds' = IF zoom_in THEN zoom(kz_bounds, x, y, 4, 5)
                               ELSE zoom(kz_bounds, x, y, 5, 4)
    /\ kz_last' = "wheel"
    /\ kz_is_rendering' = TRUE
    /\ kz_ops' = kz_ops + 1
    /\ UNCHANGED kz_drag_start
    /\ UNCHANGED kzOther

\* the render started by the last zoom (or by the constructor) finishes
KzRenderDone ==
    /\ kz_is_rendering
    /\ kz_is_rendering' = FALSE
    /\ UNCHANGED <<kz_bounds, kz_drag_start, kz_last, kz_ops>>
    /\ UNCHANGED kzOther

KzNext ==
    \/ \E x, y \in KzPixels : ZoomController_on_mouse_down(x, y)
    \/ \E x, y \in KzPixels : ZoomController_on_mouse_up(x, y)
    \/ \E x, y \in KzPixels, zoom_in \in BOOLEAN : ZoomController_on_mouse_wheel(x, y, zoom_in)
    \/ KzRenderDone

\* ==================================================================
\* claude-opus  renderer.py  plane y of every image row
\* ==================================================================
\* A y value is the pair <<numerator, denominator>>, denominator > 0.

\* _render_sequential lines 151-154: y = y_min + py * y_step with
\* y_step = (y_max - y_min) / height
render_sequential_y(py, height, y_min, y_max) ==
    <<y_min * height + py * (y_max - y_min), height>>

\* np.linspace(y_min, y_max, height)[py], _render_numpy line 261
render_numpy_y(py, height, y_min, y_max) ==
    IF height = 1 THEN <<y_min, 1>>
    ELSE <<y_min * (height - 1) + py * (y_max - y_min), height - 1>>

\* _calculate_chunk_numpy lines 40-47 for row i of the chunk
\* [start_row, end_row): np.linspace(chunk_y_min, chunk_y_max,
\* end_row - start_row, endpoint=False)[i]
calculate_chunk_numpy_y(i, start_row, end_row, height, y_min, y_max) ==
    LET n == end_row - start_row
        chunk_y_min == y_min * height + start_row * (y_max - y_min)
        chunk_y_max == y_min * height + end_row * (y_max - y_min)
    IN <<chunk_y_min * n + i * (chunk_y_max - chunk_y_min), height * n>>

OyIdle ==
    /\ oy_height = 0
    /\ oy_worker_count = 0
    /\ oy_y_min = 0
    /\ oy_y_max = 0
    /\ oy_path = "idle"
    /\ oy_rows = <<>>

\* a renderer about to render a view y_min < y_max
OyInit ==
    /\ oy_height \in 1 .. OyMaxHeight
    /\ oy_worker_count \in 1 .. 2
    /\ oy_y_min \in -OyMaxY .. OyMaxY
    /\ oy_y_max \in -OyMaxY .. OyMaxY
    /\ oy_y_min < oy_y_max
    /\ oy_path = "none"
    /\ oy_rows = <<>>

\* render with use_numpy and use_parallel off: _render_sequential
FractalRenderer_render_sequential_rows ==
    /\ oy_path = "none"
    /\ oy_path' = "sequential"
    /\ oy_rows' = [r \in 1 .. oy_height |->
                      render_sequential_y(r - 1, oy_height, oy_y_min, oy_y_max)]
    /\ UNCHANGED <<oy_height, oy_worker_count, oy_y_min, oy_y_max>>
    /\ UNCHANGED oyOther

\* render with use_numpy on and use_parallel off: _render_numpy
FractalRenderer_render_numpy_rows ==
    /\ oy_path = "none"
    /\ oy_path' = "numpy"
    /\ oy_rows' = [r \in 1 .. oy_height |->
                      render_numpy_y(r - 1, oy_height, oy_y_min, oy_y_max)]
    /\ UNCHANGED <<oy_height, oy_worker_count, oy_y_min, oy_y_max>>
    /\ UNCHANGED oyOther

\* render with use_numpy and use_parallel on: _render_numpy_parallel, every
\* chunk computed by _calculate_chunk_numpy
FractalRenderer_render_numpy_parallel_rows ==
    /\ oy_path = "none"
    /\ oy_path' = "numpy_parallel"
    /\ LET chunks == OpusRanges(oy_height, oy_worker_count)
           ChunkOf(r) == CHOOSE k \in 1 .. Len(chunks) :
                             chunks[k][1] <= r - 1 /\ r - 1 < chunks[k][2]
       IN oy_rows' = [r \in 1 .. oy_height |->
              calculate_chunk_numpy_y(r - 1 - chunks[ChunkOf(r)][1],
                  chunks[ChunkOf(r)][1], chunks[ChunkOf(r)][2],
                  oy_height, oy_y_min, oy_y_max)]
    /\ UNCHANGED <<oy_height, oy_worker_count, oy_y_min, oy_y_max>>
    /\ UNCHANGED oyOther

OyNext ==
    \/ FractalRenderer_render_sequential_rows
    \/ FractalRenderer_render_numpy_rows
    \/ FractalRenderer_render_numpy_parallel_rows

\* ==================================================================
\* qwen3  navigation/__init__.py  ZoomController
\* ==================================================================
\* The viewport is held exactly, as numerators over a common denominator.

QzPixels == {0, 1, QzSize}
QzFactors == {<<1, 2>>, <<2, 1>>}

\* pixel_to_complex, lines 26-30: <<x, y>> as numerators over
\* bounds.den * QzSize
pixel_to_complex(bounds, px, py) ==
    <<bounds.xmin * QzSize + px * (bounds.xmax - bounds.xmin),
      bounds.ymin * QzSize + (QzSize - py) * (bounds.ymax - bounds.ymin)>>

\* zoom_at, lines 38-51, with factor = fn / fd
zoom_at(bounds, px, py, fn, fd) ==
    LET center == pixel_to_complex(bounds, px, py)
        new_width == (bounds.xmax - bounds.xmin) * fn
        new_height == (bounds.ymax - bounds.ymin) * fn
    IN KzBounds(center[1] * fd * 2 - new_width * QzSize,
                center[1] * fd * 2 + new_width * QzSize,
                center[2] * fd * 2 - new_height * QzSize,
                center[2] * fd * 2 + new_height * QzSize,
                bounds.den * QzSize * fd * 2)

\* zoom_rect, lines 53-70
zoom_rect(bounds, x1, y1, x2, y2) ==
    IF x1 = x2 \/ y1 = y2 THEN bounds
    ELSE LET px_min == Min(x1, x2)
             px_max == Max(x1, x2)
             py_min == Min(y1, y2)
             py_max == Max(y1, y2)
         IN KzBounds(bounds.xmin * QzSize + px_min * (bounds.xmax - bounds.xmin),
                     bounds.xmin * QzSize + px_max * (bounds.xmax - bounds.xmin),
                     bounds.ymin * QzSize + (QzSize - py_max) * (bounds.ymax - bounds.ymin),
                     bounds.ymin * QzSize + (QzSize - py_min) * (bounds.ymax - bounds.ymin),
                     bounds.den * QzSize)

QzNoCall == [op |-> "none", px |-> 0, py |-> 0, fn |-> 0, fd |-> 0]

QzIdle ==
    /\ qz_bounds = [xmin |-> 0, xmax |-> 0, ymin |-> 0, ymax |-> 0, den |-> 0]
    /\ qz_last = [QzNoCall EXCEPT !.op = "idle"]
    /\ qz_ops = 0

\* ZoomController.__init__, lines 9-13: -2.5 .. 1.5 by -1.5 .. 1.5
QzInit ==
    /\ qz_bounds = KzBounds(-5, 3, -3, 3, 2)
    /\ qz_last = QzNoCall
    /\ qz_ops = 0

ZoomController_zoom_at(px, py, fn, fd) ==
    /\ qz_ops < QzMaxOps
    /\ qz_bounds' = zoom_at(qz_bounds, px, py, fn, fd)
    /\ qz_last' = [op |-> "zoom_at", px |-> px, py |-> py, fn |-> fn, fd |-> fd]
    /\ qz_ops' = qz_ops + 1
    /\ UNCHANGED qzOther

ZoomController_zoom_rect(x1, y1, x2, y2) ==
    /\ qz_ops < QzMaxOps
    /\ qz_bounds' = zoom_rect(qz_bounds, x1, y1, x2, y2)
    /\ qz_last' = [QzNoCall EXCEPT !.op = "zoom_rect"]
    /\ qz_ops' = qz_ops + 1
    /\ UNCHANGED qzOther

\* reset, lines 82-85
ZoomController_reset ==
    /\ qz_ops < QzMaxOps
    /\ qz_bounds' = KzBounds(-5, 3, -3, 3, 2)
    /\ qz_last' = [QzNoCall EXCEPT !.op = "reset"]
    /\ qz_ops' = qz_ops + 1
    /\ UNCHANGED qzOther

QzNext ==
    \/ \E px, py \in QzPixels, f \in QzFactors : ZoomController_zoom_at(px, py, f[1], f[2])
    \/ \E x1, y1, x2, y2 \in QzPixels : ZoomController_zoom_rect(x1, y1, x2, y2)
    \/ ZoomController_reset

\* ==================================================================
\* minimax  fractal_gen_tk/fractals.py  FractalFactory
\* ==================================================================
\* Three of the built-in fractals stand for the seven; the name "None" is
\* the Python value None.

MfNames == {"None", "Mandelbrot", "julia", "Burning Ship", "BURNING SHIP",
            "nonexistent", "", "My Fractal", "my_fractal"}
MfRegisterNames == {"My Fractal", "julia", "Mandelbrot"}
MfClasses == {"Custom", "Mandelbrot"}

\* _display_to_key, lines 317-325.  register adds to it under the class
\* attribute `name`, a property object and never a string (lines 381-383),
\* so lookups by string see the built-in mapping only.
display_to_key ==
    [n \in {"Mandelbrot", "Julia", "Burning Ship"} |->
        IF n = "Mandelbrot" THEN "mandelbrot"
        ELSE IF n = "Julia" THEN "julia" ELSE "burning_ship"]

\* _normalize_name, lines 357-364: lower(), "³" -> "3", " " -> "_"
normalize_name(name) ==
    CASE name = "Mandelbrot" -> "mandelbrot"
      [] name = "Julia" -> "julia"
      [] name = "Burning Ship" -> "burning_ship"
      [] name = "BURNING SHIP" -> "burning_ship"
      [] name = "My Fractal" -> "my_fractal"
      [] OTHER -> name

\* the key create looks up, line 348: _display_to_key.get(name) or
\* _normalize_name(name)
MfKey(name) ==
    IF name \in DOMAIN display_to_key THEN display_to_key[name] ELSE normalize_name(name)

\* FractalFactory.create, lines 332-355
FractalFactory_create(fractals, name) ==
    IF name = "None" THEN [kind |-> "instance", class |-> fractals["mandelbrot"]]
    ELSE IF MfKey(name) \notin DOMAIN fractals
         THEN [kind |-> "instance", class |-> fractals["mandelbrot"]]
         ELSE [kind |-> "instance", class |-> fractals[MfKey(name)]]

MfNoResult == [kind |-> "none", class |-> ""]

MfIdle ==
    /\ mf_fractals = EmptyDict
    /\ mf_last = [op |-> "idle", name |-> "", result |-> MfNoResult]

\* the class attributes as written, lines 306-314
MfInit ==
    /\ mf_fractals = Put(Put(Put(EmptyDict, "mandelbrot", "Mandelbrot"),
                             "julia", "Julia"), "burning_ship", "BurningShip")
    /\ mf_last = [op |-> "none", name |-> "", result |-> MfNoResult]

MfCreate(name) ==
    /\ mf_last' = [op |-> "create", name |-> name,
                   result |-> FractalFactory_create(mf_fractals, name)]
    /\ UNCHANGED mf_fractals
    /\ UNCHANGED mfOther

\* FractalFactory.register, lines 366-383
FractalFactory_register(name, fractal_class) ==
    /\ mf_fractals' = Put(mf_fractals, normalize_name(name), fractal_class)
    /\ mf_last' = [op |-> "register", name |-> name, result |-> MfNoResult]
    /\ UNCHANGED mfOther

MfNext ==
    \/ \E name \in MfNames : MfCreate(name)
    \/ \E name \in MfRegisterNames, c \in MfClasses : FractalFactory_register(name, c)

\* ==================================================================
\* kimi-k2.5  fractals/__init__.py, palettes/__init__.py  registries
\* ==================================================================
\* Two built-in entries stand for each registry's decorated classes.

KgNames == {"mandelbrot", "Mandelbrot", "julia", "smooth", "fire", "custom", "nope", ""}
KgRegisterNames == {"custom", "julia", "fire"}
KgClasses == {"Custom", "Other", "NotABase"}

\* FractalRegistry.create handing out the first registered class for a
\* name it does not know.
FractalRegistry_create_fallback(fractals, name) ==
    IF name \notin DOMAIN fractals
    THEN [kind |-> "instance", class |-> fractals["mandelbrot"]]
    ELSE [kind |-> "instance", class |-> fractals[name]]

\* FractalRegistry.create, lines 72-78 (get is _fractals.get(name))
FractalRegistry_create(fractals, name) ==
    IF name \notin DOMAIN fractals
    THEN [kind |-> "ValueError", class |-> ""]
    ELSE [kind |-> "instance", class |-> fractals[name]]

\* PaletteRegistry.create, lines 68-74 (get is _palettes.get(name))
PaletteRegistry_create(palettes, name) ==
    IF name \notin DOMAIN palettes
    THEN [kind |-> "ValueError", class |-> ""]
    ELSE [kind |-> "instance", class |-> palettes[name]]

KgNoResult == [kind |-> "none", class |-> ""]

KgIdle ==
    /\ kg_fractals = EmptyDict
    /\ kg_palettes = EmptyDict
    /\ kg_last = [registry |-> "idle", op |-> "idle", name |-> "", result |-> KgNoResult]

\* the registries once the implementation modules have been imported and
\* their @register_fractal / @register_palette decorators have run
KgInit ==
    /\ kg_fractals = Put(Put(EmptyDict, "mandelbrot", "Mandelbrot"), "julia", "Julia")
    /\ kg_palettes = Put(Put(EmptyDict, "smooth", "Smooth"), "fire", "Fire")
    /\ kg_last = [registry |-> "none", op |-> "none", name |-> "", result |-> KgNoResult]

KgCreateFractal(name) ==
    /\ kg_last' = [registry |-> "fractal", op |-> "create", name |-> name,
                   result |-> FractalRegistry_create(kg_fractals, name)]
    /\ UNCHANGED <<kg_fractals, kg_palettes>>
    /\ UNCHANGED kgOther

KgCreatePalette(name) ==
    /\ kg_last' = [registry |-> "palette", op |-> "create", name |-> name,
                   result |-> PaletteRegistry_create(kg_palettes, name)]
    /\ UNCHANGED <<kg_fractals, kg_palettes>>
    /\ UNCHANGED kgOther

\* FractalRegistry.register, lines 55-60
FractalRegistry_register(name, fractal_class) ==
    /\ IF fractal_class = "NotABase"
       THEN /\ UNCHANGED kg_fractals
            /\ kg_last' = [registry |-> "fractal", op |-> "register", name |-> name,
                           result |-> [kind |-> "ValueError", class |-> ""]]
       ELSE /\ kg_fractals' = Put(kg_fractals, name, fractal_class)
            /\ kg_last' = [registry |-> "fractal", op |-> "register", name |-> name,
                           result |-> KgNoResult]
    /\ UNCHANGED kg_palettes
    /\ UNCHANGED kgOther

\* PaletteRegistry.register, lines 51-56
PaletteRegistry_register(name, palette_class) ==
    /\ IF palette_class = "NotABase"
       THEN /\ UNCHANGED kg_palettes
            /\ kg_last' = [registry |-> "palette", op |-> "register", name |-> name,
                           result |-> [kind |-> "ValueError", class |-> ""]]
       ELSE /\ kg_palettes' = Put(kg_palettes, name, palette_class)
            /\ kg_last' = [registry |-> "palette", op |-> "register", name |-> name,
                           result |-> KgNoResult]
    /\ UNCHANGED kg_fractals
    /\ UNCHANGED kgOther

KgNext ==
    \/ \E name \in KgNames : KgCreateFractal(name)
    \/ \E name \in KgNames : KgCreatePalette(name)
    \/ \E name \in KgRegisterNames, c \in KgClasses : FractalRegistry_register(name, c)
    \/ \E name \in KgRegisterNames, c \in KgClasses : PaletteRegistry_register(name, c)

\* ==================================================================
\* claude-opus  fractal_generator/fractals.py  MultibrotFractal.set_parameter
\* ==================================================================
\* A value is an int, a float given in tenths, or the floats inf and nan.

OmValues ==
    [kind : {"int"}, v : -1 .. OmMaxValue]
        \cup [kind : {"float"}, v : {-15, 27, 105}]
        \cup [kind : {"inf", "nan"}, v : {0}]
OmParamNames == {"exponent", "c_real"}

\* int(value): truncation towards zero; OverflowError for inf, ValueError
\* for nan
OmInt(value) ==
    CASE value.kind = "int" -> [raised |-> "", v |-> value.v]
      [] value.kind = "float" ->
            [raised |-> "",
             v |-> IF value.v >= 0 THEN value.v \div 10 ELSE -((-value.v) \div 10)]
      [] value.kind = "inf" -> [raised |-> "OverflowError", v |-> 0]
      [] OTHER -> [raised |-> "ValueError", v |-> 0]

OmIdle ==
    /\ om_exponent = 0
    /\ om_last = [name |-> "idle", value |-> [kind |-> "int", v |-> 0], raised |-> ""]

\* MultibrotFractal.__init__, lines 195-196
OmInit ==
    /\ om_exponent = 3
    /\ om_last = [name |-> "none", value |-> [kind |-> "int", v |-> 0], raised |-> ""]

\* MultibrotFractal.set_parameter, lines 210-212
MultibrotFractal_set_parameter(name, value) ==
    /\ IF name = "exponent"
       THEN /\ om_exponent' = IF OmInt(value).raised = "" THEN OmInt(value).v ELSE om_exponent
            /\ om_last' = [name |-> name, value |-> value, raised |-> OmInt(value).raised]
       ELSE /\ UNCHANGED om_exponent
            /\ om_last' = [name |-> name, value |-> value, raised |-> ""]
    /\ UNCHANGED omOther

OmNext ==
    \E name \in OmParamNames, value \in OmValues : MultibrotFractal_set_parameter(name, value)

\* ==================================================================
\* kimi-k2.5  fractals/newton.py  NewtonFractal.compute_pixel
\* ==================================================================
\* A pixel is taken by what Newton's method does with it: the pass i of
\* the loop in which z_new first lies within 1e-6 of a root, and the index
\* j of that root in the list roots; or no such pass below max_iter.
\* Returned values are held exactly, as numerators over 3.

KnNoOutcome == [kind |-> "none", i |-> 0, j |-> 0, value3 |-> 0]

\* compute_pixel, lines 27-39, for a pixel that meets root j in pass i
\* (line 35: float(i + j * max_iter / 3)), and for one that meets none
\* (lines 29 and 39: float(max_iter))
compute_pixel(converges, i, j, max_iter) ==
    IF converges /\ i < max_iter
    THEN [kind |-> "converged", i |-> i, j |-> j, value3 |-> 3 * i + j * max_iter]
    ELSE [kind |-> "max_iter", i |-> 0, j |-> 0, value3 |-> 3 * max_iter]

KnIdle ==
    /\ kn_max_iter = 0
    /\ kn_first = KnNoOutcome
    /\ kn_second = KnNoOutcome

KnInit ==
    /\ kn_max_iter \in 1 .. KnMaxIter
    /\ kn_first = KnNoOutcome
    /\ kn_second = KnNoOutcome

NewtonFractal_compute_pixel_first(converges, i, j) ==
    /\ kn_first = KnNoOutcome
    /\ kn_first' = compute_pixel(converges, i, j, kn_max_iter)
    /\ UNCHANGED <<kn_max_iter, kn_second>>
    /\ UNCHANGED knOther

NewtonFractal_compute_pixel_second(converges, i, j) ==
    /\ kn_first # KnNoOutcome
    /\ kn_second = KnNoOutcome
    /\ kn_second' = compute_pixel(converges, i, j, kn_max_iter)
    /\ UNCHANGED <<kn_max_iter, kn_first>>
    /\ UNCHANGED knOther

KnNext ==
    \/ \E c \in BOOLEAN, i \in 0 .. (KnMaxIter - 1), j \in 0 .. 2 :
           NewtonFractal_compute_pixel_first(c, i, j)
    \/ \E c \in BOOLEAN, i \in 0 .. (KnMaxIter - 1), j \in 0 .. 2 :
           NewtonFractal_compute_pixel_second(c, i, j)

\* ==================================================================
\* claude-opus  fractal_generator/fractals.py  MandelbrotFractal
\* ==================================================================
\* Points have integer coordinates, so every z of the iteration is an
\* integer pair and the arithmetic is exact.

ObIters == {1, 2, 3, FractalApp_DEFAULT_ITERATIONS}

\* the loop of calculate, lines 89-97, from pass i on: the escape test
\* comes first, on the z left by the pass before; line 99 after the loop
RECURSIVE ObCalculateFrom(_, _, _, _, _, _)
ObCalculateFrom(i, z_real, z_imag, c_real, c_imag, max_iter) ==
    IF i >= max_iter THEN max_iter
    ELSE IF z_real * z_real + z_imag * z_imag > 4 THEN i
    ELSE ObCalculateFrom(i + 1, z_real * z_real - z_imag * z_imag + c_real,
                         2 * z_real * z_imag + c_imag, c_real, c_imag, max_iter)

\* MandelbrotFractal.calculate, lines 85-99
MandelbrotFractal_calculate(x, y, max_iter) == ObCalculateFrom(0, 0, 0, x, y, max_iter)

\* the loop of calculate_array, lines 108-115, for one element from pass
\* i on: z is updated first and tested after, abs(z) > 2.0; an element
\* never marked keeps the initial max_iter (line 105)
RECURSIVE ObCalculateArrayFrom(_, _, _, _, _, _)
ObCalculateArrayFrom(i, z_real, z_imag, c_real, c_imag, max_iter) ==
    IF i >= max_iter THEN max_iter
    ELSE LET n_real == z_real * z_real - z_imag * z_imag + c_real
             n_imag == 2 * z_real * z_imag + c_imag
         IN IF n_real * n_real + n_imag * n_imag > 4 THEN i
            ELSE ObCalculateArrayFrom(i + 1, n_real, n_imag, c_real, c_imag, max_iter)

\* MandelbrotFractal.calculate_array, lines 101-117, at one element
MandelbrotFractal_calculate_array(x, y, max_iter) ==
    ObCalculateArrayFrom(0, 0, 0, x, y, max_iter)

ObIdle ==
    /\ ob_x = 0
    /\ ob_y = 0
    /\ ob_max_iter = 0
    /\ ob_scalar = -2
    /\ ob_array = -2

ObInit ==
    /\ ob_x \in -ObMaxCoord .. ObMaxCoord
    /\ ob_y \in -ObMaxCoord .. ObMaxCoord
    /\ ob_max_iter \in ObIters
    /\ ob_scalar = -1
    /\ ob_array = -1

\* render with use_numpy off: fractal.calculate for the point
ObCalculate ==
    /\ ob_scalar = -1
    /\ ob_scalar' = MandelbrotFractal_calculate(ob_x, ob_y, ob_max_iter)
    /\ UNCHANGED <<ob_x, ob_y, ob_max_iter, ob_array>>
    /\ UNCHANGED obOther

\* render with use_numpy on: fractal.calculate_array for the grid
ObCalculateArray ==
    /\ ob_array = -1
    /\ ob_array' = MandelbrotFractal_calculate_array(ob_x, ob_y, ob_max_iter)
    /\ UNCHANGED <<ob_x, ob_y, ob_max_iter, ob_scalar>>
    /\ UNCHANGED obOther

ObNext ==
    \/ ObCalculate
    \/ ObCalculateArray

\* ==================================================================
\* claude-opus  fractal_generator/state.py  ZoomHistory, called as
\* FractalApp calls it: push(current view) before a zoom, undo(current
\* view) and redo(current view), the returned view becoming the current one
\* ==================================================================

ZhNoCall ==
    [op |-> "none", prev |-> "none", arg |-> 0, ok |-> FALSE, ret |-> 0,
     before |-> ZoomHistory_new]

ZhIdle ==
    /\ zh_stacks = ZoomHistory_new
    /\ zh_current = -1
    /\ zh_last = ZhNoCall

\* ZoomHistory.__init__, lines 80-82; the view is the default one
ZhInit ==
    /\ zh_stacks = ZoomHistory_new
    /\ zh_current = 0
    /\ zh_last = ZhNoCall

\* _on_mouse_up, app.py lines 597-608: push the current view, then zoom in
ZhPush ==
    /\ zh_current < ZhMaxView
    /\ zh_stacks' = ZoomHistory_push(zh_stacks, zh_current)
    /\ zh_current' = zh_current + 1
    /\ zh_last' = [op |-> "push", prev |-> zh_last.op, arg |-> zh_current, ok |-> TRUE, ret |-> zh_current,
                   before |-> zh_stacks]
    /\ UNCHANGED zhOther

\* _on_undo_zoom, app.py lines 418-430, with ZoomHistory.undo
ZhUndo ==
    LET r == ZoomHistory_undo(zh_stacks, zh_current)
    IN /\ zh_stacks' = r.zh
       /\ zh_current' = r.view
       /\ zh_last' = [op |-> "undo", prev |-> zh_last.op, arg |-> zh_current, ok |-> r.ok, ret |-> r.view,
                      before |-> zh_stacks]
       /\ UNCHANGED zhOther

\* _on_redo_zoom, app.py lines 432-444, with ZoomHistory.redo
ZhRedo ==
    LET r == ZoomHistory_redo(zh_stacks, zh_current)
    IN /\ zh_stacks' = r.zh
       /\ zh_current' = r.view
       /\ zh_last' = [op |-> "redo", prev |-> zh_last.op, arg |-> zh_current, ok |-> r.ok, ret |-> r.view,
                      before |-> zh_stacks]
       /\ UNCHANGED zhOther

ZhNext ==
    \/ ZhPush
    \/ ZhUndo
    \/ ZhRedo

\* ==================================================================
\* kimi-k2.5  rendering/__init__.py  RenderEngine (escape-time path)
\* ==================================================================

ThreadIds == 1 .. MaxRenders

KrInit ==
    /\ kr_is_rendering = FALSE
    /\ kr_cancel_render = FALSE
    /\ kr_render_thread = 0
    /\ kr_threads = [t \in ThreadIds |-> [pc |-> "unborn", par |-> ParStart(0)]]
    /\ kr_main = "idle"
    /\ kr_after = <<>>
    /\ kr_displayed = [gen |-> 0, latest |-> 0]
    /\ kr_requested = 0

KrIdle == KrInit

\* Lines 54-72 and 101-102: mark the engine busy, create and start the
\* thread of this render; the thread first calls compute_fractal_parallel.
StartThread ==
    /\ kr_is_rendering' = TRUE
    /\ kr_requested' = kr_requested + 1
    /\ kr_render_thread' = kr_requested + 1
    /\ kr_threads' = [kr_threads EXCEPT ![kr_requested + 1] =
                          [pc |-> "merging", par |-> ParStart(ImgHeight)]]

\* render() called from a Tk handler while no render is marked in progress.
RenderEngine_render_idle ==
    /\ kr_main = "idle"
    /\ kr_requested < MaxRenders
    /\ ~kr_is_rendering
    /\ StartThread
    /\ UNCHANGED <<kr_cancel_render, kr_main, kr_after, kr_displayed>>
    /\ UNCHANGED krOther

\* render() called while is_rendering: lines 45-48 set the cancel flag and
\* block in render_thread.join(timeout=THREAD_JOIN_TIMEOUT).
RenderEngine_render_busy ==
    /\ kr_main = "idle"
    /\ kr_requested < MaxRenders
    /\ kr_is_rendering
    /\ kr_cancel_render' = TRUE
    /\ kr_main' = "joining"
    /\ UNCHANGED <<kr_is_rendering, kr_render_thread, kr_threads, kr_after,
                   kr_displayed, kr_requested>>
    /\ UNCHANGED krOther

\* join() returns because the joined thread has ended; lines 52-102.
RenderEngine_render_joined ==
    /\ kr_main = "joining"
    /\ kr_threads[kr_render_thread].pc = "dead"
    /\ kr_cancel_render' = FALSE
    /\ kr_main' = "idle"
    /\ StartThread
    /\ UNCHANGED <<kr_after, kr_displayed>>
    /\ UNCHANGED krOther

\* join() returns on its timeout with the thread still alive (lines 50-51
\* only set a warning); lines 52-102 go on exactly as after a join.
RenderEngine_render_timeout ==
    /\ kr_main = "joining"
    /\ kr_threads[kr_render_thread].pc # "dead"
    /\ kr_cancel_render' = FALSE
    /\ kr_main' = "idle"
    /\ StartThread
    /\ UNCHANGED <<kr_after, kr_displayed>>
    /\ UNCHANGED krOther

\* Render thread t inside compute_fractal_parallel: one loop pass on the
\* result of row i; cancel_check reads the engine's shared flag.
render_thread_merge(t, i) ==
    /\ kr_threads[t].pc = "merging"
    /\ i \in kr_threads[t].par.pending
    /\ LET p == MergeRow(kr_threads[t].par, i, ImgHeight, FALSE, kr_cancel_render)
       IN kr_threads' = [kr_threads EXCEPT ![t] =
              [pc |-> IF p.ret = "running" THEN "merging" ELSE "check", par |-> p]]
    /\ UNCHANGED <<kr_is_rendering, kr_cancel_render, kr_render_thread, kr_main,
                   kr_after, kr_displayed, kr_requested>>
    /\ UNCHANGED krOther

\* Lines 94-95: the thread hands its image to the Tk loop unless the call
\* returned None or the cancel flag is set right now.
render_thread_check(t) ==
    /\ kr_threads[t].pc = "check"
    /\ kr_after' = IF kr_threads[t].par.ret = "img" /\ ~kr_cancel_render
                   THEN Append(kr_after, t) ELSE kr_after
    /\ kr_threads' = [kr_threads EXCEPT ![t].pc = "finally"]
    /\ UNCHANGED <<kr_is_rendering, kr_cancel_render, kr_render_thread, kr_main,
                   kr_displayed, kr_requested>>
    /\ UNCHANGED krOther

\* Lines 98-99: finally clears is_rendering, then the thread ends.
render_thread_finally(t) ==
    /\ kr_threads[t].pc = "finally"
    /\ kr_is_rendering' = FALSE
    /\ kr_threads' = [kr_threads EXCEPT ![t].pc = "dead"]
    /\ UNCHANGED <<kr_cancel_render, kr_render_thread, kr_main, kr_after,
                   kr_displayed, kr_requested>>
    /\ UNCHANGED krOther

\* The Tk loop, when no handler is running, runs the oldest queued
\* root.after callback: display_image(img_array) of render Head(kr_after).
display_image ==
    /\ kr_main = "idle"
    /\ kr_after # <<>>
    /\ kr_displayed' = [gen |-> Head(kr_after), latest |-> kr_requested]
    /\ kr_after' = Tail(kr_after)
    /\ UNCHANGED <<kr_is_rendering, kr_cancel_render, kr_render_thread,
                   kr_threads, kr_main, kr_requested>>
    /\ UNCHANGED krOther

KrNext ==
    \/ RenderEngine_render_idle
    \/ RenderEngine_render_busy
    \/ RenderEngine_render_joined
    \/ RenderEngine_render_timeout
    \/ \E t \in ThreadIds : \E i \in 0 .. (ImgHeight - 1) : render_thread_merge(t, i)
    \/ \E t \in ThreadIds : render_thread_check(t)
    \/ \E t \in ThreadIds : render_thread_finally(t)
    \/ display_image

KrSpecInit == KrInit /\ KpIdle /\ PtIdle /\ MmIdle /\ OpIdle /\ KhIdle /\ QwIdle /\ OhIdle /\ KcIdle /\ QpIdle /\ KzIdle /\ OyIdle /\ QzIdle /\ MfIdle /\ KgIdle /\ OmIdle /\ KnIdle /\ ObIdle /\ ZhIdle

KrSpec == KrSpecInit /\ [][KrNext]_vars

KpSpecInit == KpInit /\ KrIdle /\ PtIdle /\ MmIdle /\ OpIdle /\ KhIdle /\ QwIdle /\ OhIdle /\ KcIdle /\ QpIdle /\ KzIdle /\ OyIdle /\ QzIdle /\ MfIdle /\ KgIdle /\ OmIdle /\ KnIdle /\ ObIdle /\ ZhIdle

KpSpec == KpSpecInit /\ [][KpNext]_vars

\* ------------------------------------------------------------------
\* C1: the image of a render that has been superseded by a later render()
\* is never passed to display_image: every display_image call shows the
\* image of the most recently requested render.
C1_StaleNeverDisplayed == kr_displayed.gen = kr_displayed.latest

\* ------------------------------------------------------------------
\* C4: once cancel_check() has been observed true in the merge loop,
\* compute_fractal_parallel returns None; it never returns img_array.
C4_CancelReturnsNone == kp_observed => kp_par.ret = "None"

\* cancelled before any row was merged: None, with img_array still zero
C4_Witness ==
    /\ kp_observed
    /\ kp_par.completed = 0
    /\ kp_par.ret = "None"

\* ------------------------------------------------------------------
\* C5: when the fractal or palette cannot be constructed in the workers,
\* compute_fractal_parallel does not return an array with zero-filled rows.
C5_NoZeroRowsOnCtorFailure ==
    kp_ctor_fails =>
        ~(kp_par.ret = "img" /\ \E i \in 0 .. (kp_height - 1) : kp_par.img[i] = ZeroRow)

\* ------------------------------------------------------------------
\* C6: whatever order the rows arrive in, the returned array holds at
\* row i the row that compute_row_wrapper produced for row index i.
C6_RowsAtOwnIndex ==
    kp_par.ret = "img" =>
        \A i \in 0 .. (kp_height - 1) :
            kp_par.img[i] = compute_row_wrapper(i, kp_height, kp_ctor_fails)[2]

\* a completed render whose rows arrived in descending order
C6_Witness ==
    /\ kp_par.ret = "img"
    /\ ~kp_ctor_fails
    /\ kp_height >= 3
    /\ kp_order = [k \in 1 .. kp_height |-> kp_height - k]

PtSpecInit == PtInit /\ KrIdle /\ KpIdle /\ MmIdle /\ OpIdle /\ KhIdle /\ QwIdle /\ OhIdle /\ KcIdle /\ QpIdle /\ KzIdle /\ OyIdle /\ QzIdle /\ MfIdle /\ KgIdle /\ OmIdle /\ KnIdle /\ ObIdle /\ ZhIdle

PtSpec == PtSpecInit /\ [][PtNext]_vars

\* ------------------------------------------------------------------
\* C7: the ranges built by each partitioner are contiguous, start at row 0,
\* end at row height, and every row of [0, height) lies in exactly one of
\* them, for every height >= 1 and worker count >= 1.
RowsOf(rg) == {r \in 0 .. (pt_height - 1) : rg[1] <= r /\ r < rg[2]}

C7_ExactCover ==
    pt_impl # "none" =>
        /\ Len(pt_ranges) >= 1
        /\ pt_ranges[1][1] = 0
        /\ pt_ranges[Len(pt_ranges)][2] = pt_height
        /\ \A k \in 1 .. Len(pt_ranges) : pt_ranges[k][1] <= pt_ranges[k][2]
        /\ \A k \in 1 .. (Len(pt_ranges) - 1) : pt_ranges[k][2] = pt_ranges[k + 1][1]
        /\ \A r \in 0 .. (pt_height - 1) :
               Cardinality({k \in 1 .. Len(pt_ranges) : r \in RowsOf(pt_ranges[k])}) = 1

\* glm with fewer rows than workers: rows_per_worker is 0, the last worker
\* gets every row
C7_Witness ==
    /\ pt_impl = "glm"
    /\ pt_height = 2
    /\ pt_workers = 3
    /\ pt_ranges = <<(<<0, 0>>), (<<0, 0>>), (<<0, 2>>)>>

MmSpecInit == MmInit /\ KrIdle /\ KpIdle /\ PtIdle /\ OpIdle /\ KhIdle /\ QwIdle /\ OhIdle /\ KcIdle /\ QpIdle /\ KzIdle /\ OyIdle /\ QzIdle /\ MfIdle /\ KgIdle /\ OmIdle /\ KnIdle /\ ObIdle /\ ZhIdle

MmSpec == MmSpecInit /\ [][MmNext]_vars

\* ------------------------------------------------------------------
\* C8: for the same view, canvas size and max_iter the parallel mode
\* evaluates every row at the same y coordinate as the sequential mode and
\* returns the same iteration array.
C8_ParallelEqualsSequential ==
    (mm_seq.done /\ mm_par.done) =>
        /\ mm_par.Y = mm_seq.Y
        /\ mm_par.iterations = mm_seq.iterations

OpSpecInit == OpInit /\ KrIdle /\ KpIdle /\ PtIdle /\ MmIdle /\ KhIdle /\ QwIdle /\ OhIdle /\ KcIdle /\ QpIdle /\ KzIdle /\ OyIdle /\ QzIdle /\ MfIdle /\ KgIdle /\ OmIdle /\ KnIdle /\ ObIdle /\ ZhIdle

OpSpec == OpSpecInit /\ [][OpNext]_vars

\* ------------------------------------------------------------------
\* C9: for every combination of use_numpy and use_parallel, render returns a
\* grid of exactly height rows, each of exactly width pixels.
C9_RenderShape ==
    op_result.kind # "none" =>
        /\ op_result.kind = "pixels"
        /\ Len(op_result.pixels) = op_height
        /\ \A r \in 1 .. op_height : Len(op_result.pixels[r]) = op_width

KhSpecInit == KhInit /\ KrIdle /\ KpIdle /\ PtIdle /\ MmIdle /\ OpIdle /\ QwIdle /\ OhIdle /\ KcIdle /\ QpIdle /\ KzIdle /\ OyIdle /\ QzIdle /\ MfIdle /\ KgIdle /\ OmIdle /\ KnIdle /\ ObIdle /\ ZhIdle

KhSpec == KhSpecInit /\ [][KhNext]_vars

\* ------------------------------------------------------------------
\* C2: after a push of state a and then of a different state b, go_back
\* restores a (the application state equals a); and when a further different
\* state c is then pushed, a following go_forward changes nothing: the
\* cursor stays on c and the application state stays c.
C2_UndoRestoresAndBranchDiscarded ==
    LET n == Len(kh_log)
        history == kh_fractal_histories[kh_fractal_name]
        cursor == kh_fractal_history_indices[kh_fractal_name]
    IN /\ (/\ n >= 3
           /\ kh_log[n].op = "back"
           /\ kh_log[n - 1].op = "push"
           /\ kh_log[n - 2].op = "push"
           /\ kh_log[n - 1].state # kh_log[n - 2].state)
          => /\ history[cursor + 1] = kh_log[n - 2].state
             /\ AppState = kh_log[n - 2].state
       /\ (/\ n >= 5
           /\ kh_log[n].op = "forward"
           /\ kh_log[n - 1].op = "push"
           /\ kh_log[n - 2].op = "back"
           /\ kh_log[n - 3].op = "push"
           /\ kh_log[n - 4].op = "push"
           /\ kh_log[n - 3].state # kh_log[n - 4].state)
          => /\ ~kh_log[n].moved
             /\ cursor = Len(history) - 1
             /\ history[cursor + 1] = kh_log[n - 1].state
             /\ AppState = kh_log[n - 1].state

QwSpecInit == QwInit /\ KrIdle /\ KpIdle /\ PtIdle /\ MmIdle /\ OpIdle /\ KhIdle /\ OhIdle /\ KcIdle /\ QpIdle /\ KzIdle /\ OyIdle /\ QzIdle /\ MfIdle /\ KgIdle /\ OmIdle /\ KnIdle /\ ObIdle /\ ZhIdle

QwSpec == QwSpecInit /\ [][QwNext]_vars

\* ------------------------------------------------------------------
\* C3: a render caused by a palette, iteration or resize change while the
\* bounds equal the history entry at the cursor leaves the current
\* fractal's history list and cursor as they were, wherever the cursor is.
C3_PureRerenderKeepsHistory ==
    (qw_last.op \in {"palette", "iteration", "resize"} /\ qw_last.pure) =>
        /\ qw_zoom_history[qw_current_fractal_name] = qw_last.history
        /\ qw_zoom_history_pos[qw_current_fractal_name] = qw_last.pos

\* ------------------------------------------------------------------
\* C10: on coming back to a fractal kind from another kind, its history list
\* and cursor are those it had when it was left.
C10_HistoryPersistsAcrossSwitch ==
    (/\ qw_last.op = "fractal_change"
     /\ qw_last.from # qw_current_fractal_name
     /\ qw_left[qw_current_fractal_name].valid) =>
        /\ qw_zoom_history[qw_current_fractal_name] = qw_left[qw_current_fractal_name].history
        /\ qw_zoom_history_pos[qw_current_fractal_name] = qw_left[qw_current_fractal_name].pos


OhSpecInit == OhInit /\ KrIdle /\ KpIdle /\ PtIdle /\ MmIdle /\ OpIdle /\ KhIdle /\ QwIdle /\ KcIdle /\ QpIdle /\ KzIdle /\ OyIdle /\ QzIdle /\ MfIdle /\ KgIdle /\ OmIdle /\ KnIdle /\ ObIdle /\ ZhIdle
OhSpec == OhSpecInit /\ [][OhNext]_vars

\* ------------------------------------------------------------------
\* C11 (spec: the undo history never holds two identical consecutive
\* states; pushing a state equal to the one pushed last adds no entry).
\* ZoomHistory.push appends without comparing, so Reset View pressed twice
\* at the default view leaves two equal entries next to each other.
\* ------------------------------------------------------------------
C11_NoConsecutiveDuplicates ==
    oh_current_fractal \in OhFractals =>
        \A f \in OhFractals :
            \A i \in 1..(Len(oh_histories[f].history) - 1) :
                oh_histories[f].history[i] # oh_histories[f].history[i + 1]


KcSpecInit == KcInit /\ KrIdle /\ KpIdle /\ PtIdle /\ MmIdle /\ OpIdle /\ KhIdle /\ QwIdle /\ OhIdle /\ QpIdle /\ KzIdle /\ OyIdle /\ QzIdle /\ MfIdle /\ KgIdle /\ OmIdle /\ KnIdle /\ ObIdle /\ ZhIdle
KcSpec == KcSpecInit /\ [][KcNext]_vars

\* ------------------------------------------------------------------
\* C12 (kimi-k2.5): a fractal's history never holds more than 50 entries;
\* a push onto a full history removes the oldest entry, appends the new
\* state, and leaves the cursor on that new, last entry.
\* ------------------------------------------------------------------
C12_CapacityEvictsOldest ==
    [][LET h == kc_fractal_histories["mandelbrot"]
           h2 == kc_fractal_histories'["mandelbrot"]
           i2 == kc_fractal_history_indices'["mandelbrot"]
       IN /\ Len(h) <= 50
          /\ Len(h2) <= 50
          /\ (kc_last'.op = "zoom" /\ kc_last'.appended /\ Len(h) = 50
                  /\ kc_fractal_history_indices["mandelbrot"] = 49)
              => /\ h2 = Append(Tail(h), KcState(kc_bounds_storage'))
                 /\ i2 = 49
                 /\ h2[i2 + 1] = KcState(kc_bounds_storage')]_vars

\* a push has just evicted the oldest of 50 entries
C12_Witness ==
    /\ kc_last.op = "zoom"
    /\ kc_last.appended
    /\ kc_last.size = 50
    /\ Len(kc_fractal_histories["mandelbrot"]) = 50
    /\ kc_fractal_history_indices["mandelbrot"] = 49


\* ------------------------------------------------------------------
\* C13 (kimi-k2.5): go_back with the cursor at 0 and go_forward with the
\* cursor at the last entry change nothing: history, cursor, view bounds,
\* fractal parameters, palette and max_iter stay as they are and no render
\* is started.
\* ------------------------------------------------------------------
C13_NavigateAtEndIsNoOp ==
    [][LET e == kh_log'[Len(kh_log')]
           history == Get(kh_fractal_histories, kh_fractal_name, <<>>)
           history_index == Get(kh_fractal_history_indices, kh_fractal_name, -1)
       IN (\/ e.op = "back" /\ history_index = 0
           \/ e.op = "forward" /\ history_index = Len(history) - 1)
          => /\ UNCHANGED <<kh_fractal_histories, kh_fractal_history_indices,
                            kh_bounds_storage, kh_fractal_params, kh_palette_name,
                            kh_max_iter, kh_fractal_name, kh_iter_storage,
                            kh_palette_storage>>
             /\ ~kh_render_requested']_vars

\* Forward was pressed on the last of several entries, then Back was
\* pressed with the cursor at 0 (after it had been walked back there).
C13_Witness ==
    /\ Len(kh_log) >= 4
    /\ kh_log[Len(kh_log)].op = "back"
    /\ ~kh_log[Len(kh_log)].moved
    /\ kh_log[Len(kh_log) - 1].op = "back"
    /\ kh_log[Len(kh_log) - 1].moved
    /\ kh_log[Len(kh_log) - 2].op = "forward"
    /\ ~kh_log[Len(kh_log) - 2].moved
    /\ Len(kh_fractal_histories[kh_fractal_name]) = 2
    /\ kh_fractal_history_indices[kh_fractal_name] = 0


QpSpecInit == QpInit /\ KrIdle /\ KpIdle /\ PtIdle /\ MmIdle /\ OpIdle /\ KhIdle /\ QwIdle /\ OhIdle /\ KcIdle /\ KzIdle /\ OyIdle /\ QzIdle /\ MfIdle /\ KgIdle /\ OmIdle /\ KnIdle /\ ObIdle /\ ZhIdle
QpSpec == QpSpecInit /\ [][QpNext]_vars

\* ------------------------------------------------------------------
\* C14 (qwen3 render_with_bounds): over the progress callbacks of one
\* render the reported completed-row count (first argument) never
\* decreases, whatever order the rows complete in.
\* The callback is given y + 1, the index of the row that has just
\* arrived, so a later row arriving first makes the value go down.
\* ------------------------------------------------------------------
C14_ProgressNeverDecreases ==
    \A i \in 1..(Len(qp_progress) - 1) : qp_progress[i][1] <= qp_progress[i + 1][1]


KzSpecInit == KzInit /\ KrIdle /\ KpIdle /\ PtIdle /\ MmIdle /\ OpIdle /\ KhIdle /\ QwIdle /\ OhIdle /\ KcIdle /\ QpIdle /\ OyIdle /\ QzIdle /\ MfIdle /\ KgIdle /\ OmIdle /\ KnIdle /\ ObIdle /\ ZhIdle
KzSpec == KzSpecInit /\ [][KzNext]_vars

\* ------------------------------------------------------------------
\* C15 (kimi-k2.5 ZoomController): after any mouse-driven zoom (click,
\* wheel or drag selection) the stored viewport has xmin < xmax and
\* ymin < ymax.
\* A drag of at least 5 pixels along one axis and none along the other is
\* taken as a selection, and the selection's corners then share a
\* coordinate on the other axis.
\* ------------------------------------------------------------------
C15_ViewportStaysOrdered ==
    kz_last \in {"click", "wheel", "selection"} =>
        /\ kz_bounds.den > 0
        /\ kz_bounds.xmin < kz_bounds.xmax
        /\ kz_bounds.ymin < kz_bounds.ymax


OySpecInit == OyInit /\ KrIdle /\ KpIdle /\ PtIdle /\ MmIdle /\ OpIdle /\ KhIdle /\ QwIdle /\ OhIdle /\ KcIdle /\ QpIdle /\ KzIdle /\ QzIdle /\ MfIdle /\ KgIdle /\ OmIdle /\ KnIdle /\ ObIdle /\ ZhIdle
OySpec == OySpecInit /\ [][OyNext]_vars

\* ------------------------------------------------------------------
\* C16 (claude-opus renderer): the rendering maps pixels to the plane with
\* y flipped: image row 0 is evaluated at y_max and the rows that follow
\* at ever smaller y, towards y_min.
\* Every render path evaluates row 0 at y_min and goes up from there.
\* ------------------------------------------------------------------
C16_RowZeroAtYMax ==
    oy_path \in {"sequential", "numpy", "numpy_parallel"} =>
        /\ oy_rows[1][1] = oy_y_max * oy_rows[1][2]
        /\ \A r \in 1 .. (oy_height - 1) :
               oy_rows[r][1] * oy_rows[r + 1][2] > oy_rows[r + 1][1] * oy_rows[r][2]


QzSpecInit == QzInit /\ KrIdle /\ KpIdle /\ PtIdle /\ MmIdle /\ OpIdle /\ KhIdle /\ QwIdle /\ OhIdle /\ KcIdle /\ QpIdle /\ KzIdle /\ OyIdle /\ MfIdle /\ KgIdle /\ OmIdle /\ KnIdle /\ ObIdle /\ ZhIdle
QzSpec == QzSpecInit /\ [][QzNext]_vars

\* ------------------------------------------------------------------
\* C17 (qwen3 ZoomController.zoom_at(px, py, factor)): the viewport width
\* and height are multiplied by factor, and the plane point that was under
\* pixel (px, py) before the call is under the same pixel after it.
\* zoom_at makes that point the centre of the new viewport, so it stays
\* under (px, py) only when (px, py) is the middle of the canvas.
\* ------------------------------------------------------------------
C17_ZoomAtKeepsPointUnderPixel ==
    [][qz_last'.op = "zoom_at" =>
        LET b == qz_bounds
            n == qz_bounds'
            c == qz_last'
            before == pixel_to_complex(b, c.px, c.py)
            after == pixel_to_complex(n, c.px, c.py)
        IN /\ (n.xmax - n.xmin) * b.den * c.fd = (b.xmax - b.xmin) * c.fn * n.den
           /\ (n.ymax - n.ymin) * b.den * c.fd = (b.ymax - b.ymin) * c.fn * n.den
           /\ after[1] * b.den = before[1] * n.den
           /\ after[2] * b.den = before[2] * n.den]_vars


MfSpecInit == MfInit /\ KrIdle /\ KpIdle /\ PtIdle /\ MmIdle /\ OpIdle /\ KhIdle /\ QwIdle /\ OhIdle /\ KcIdle /\ QpIdle /\ KzIdle /\ OyIdle /\ QzIdle /\ KgIdle /\ OmIdle /\ KnIdle /\ ObIdle /\ ZhIdle
MfSpec == MfSpecInit /\ [][MfNext]_vars

\* ------------------------------------------------------------------
\* C18 (minimax FractalFactory.create): a name that matches no registered
\* fractal is reported to the caller as an error; it is not silently
\* resolved to some other fractal such as Mandelbrot.
\* create returns a Mandelbrot instance for every such name.
\* ------------------------------------------------------------------
C18_UnknownNameIsAnError ==
    (/\ mf_last.op = "create"
     /\ mf_last.name # "None"
     /\ MfKey(mf_last.name) \notin DOMAIN mf_fractals)
        => mf_last.result.kind = "error"


KgSpecInit == KgInit /\ KrIdle /\ KpIdle /\ PtIdle /\ MmIdle /\ OpIdle /\ KhIdle /\ QwIdle /\ OhIdle /\ KcIdle /\ QpIdle /\ KzIdle /\ OyIdle /\ QzIdle /\ MfIdle /\ OmIdle /\ KnIdle /\ ObIdle /\ ZhIdle
KgSpec == KgSpecInit /\ [][KgNext]_vars

\* ------------------------------------------------------------------
\* C19 (kimi-k2.5 registries): FractalRegistry.create and
\* PaletteRegistry.create raise ValueError for every name that is not
\* registered; they never return a default or fallback instance.
\* ------------------------------------------------------------------
C19_UnregisteredNameRaises ==
    /\ (kg_last.op = "create" /\ kg_last.registry = "fractal"
            /\ kg_last.name \notin DOMAIN kg_fractals)
        => kg_last.result = [kind |-> "ValueError", class |-> ""]
    /\ (kg_last.op = "create" /\ kg_last.registry = "palette"
            /\ kg_last.name \notin DOMAIN kg_palettes)
        => kg_last.result = [kind |-> "ValueError", class |-> ""]

\* create was called on the fractal registry with a name that differs from
\* a registered one only in case, after another class had been registered
C19_Witness ==
    /\ kg_last.op = "create"
    /\ kg_last.registry = "fractal"
    /\ kg_last.name = "Mandelbrot"
    /\ "custom" \in DOMAIN kg_fractals
    /\ kg_last.result.kind = "ValueError"


OmSpecInit == OmInit /\ KrIdle /\ KpIdle /\ PtIdle /\ MmIdle /\ OpIdle /\ KhIdle /\ QwIdle /\ OhIdle /\ KcIdle /\ QpIdle /\ KzIdle /\ OyIdle /\ QzIdle /\ MfIdle /\ KgIdle /\ KnIdle /\ ObIdle /\ ZhIdle
OmSpec == OmSpecInit /\ [][OmNext]_vars

\* ------------------------------------------------------------------
\* C20 (claude-opus MultibrotFractal.set_parameter('exponent', v)): an
\* out-of-range value is rejected or clamped into the valid range, the
\* integer powers 2..10, and the call does not raise.
\* set_parameter stores int(v) whatever it is.
\* ------------------------------------------------------------------
C20_ExponentStaysInRange ==
    om_last.name \in OmParamNames =>
        /\ om_exponent \in 2 .. 10
        /\ om_last.raised = ""


KnSpecInit == KnInit /\ KrIdle /\ KpIdle /\ PtIdle /\ MmIdle /\ OpIdle /\ KhIdle /\ QwIdle /\ OhIdle /\ KcIdle /\ QpIdle /\ KzIdle /\ OyIdle /\ QzIdle /\ MfIdle /\ KgIdle /\ OmIdle /\ ObIdle /\ ZhIdle
KnSpec == KnSpecInit /\ [][KnNext]_vars

\* ------------------------------------------------------------------
\* C21 (kimi-k2.5 NewtonFractal.compute_pixel): for a fixed max_iter the
\* value returned for a converged pixel determines the root it converged
\* to: two pixels that converge to different roots never get the same
\* value.
\* The value is i + j * max_iter / 3 with i up to max_iter - 1, so when
\* max_iter is a multiple of 3 root j met in pass i + max_iter / 3 and
\* root j + 1 met in pass i give the same value.
\* ------------------------------------------------------------------
C21_ValueDeterminesRoot ==
    (/\ kn_first.kind = "converged"
     /\ kn_second.kind = "converged"
     /\ kn_first.j # kn_second.j)
        => kn_first.value3 # kn_second.value3


ObSpecInit == ObInit /\ KrIdle /\ KpIdle /\ PtIdle /\ MmIdle /\ OpIdle /\ KhIdle /\ QwIdle /\ OhIdle /\ KcIdle /\ QpIdle /\ KzIdle /\ OyIdle /\ QzIdle /\ MfIdle /\ KgIdle /\ OmIdle /\ KnIdle /\ ZhIdle
ObSpec == ObSpecInit /\ [][ObNext]_vars

\* ------------------------------------------------------------------
\* C22 (claude-opus MandelbrotFractal.calculate): at max_iter = 100 the
\* result is exactly 100 for the point (0, 0), exactly 1 for (2, 0) and
\* exactly 100 for (-1, 0).
\* For (2, 0) the first z is 2, whose squared modulus 4 is not above 4, so
\* the escape is seen one pass later and the result is 2.
\* ------------------------------------------------------------------
C22_ReferencePoints ==
    (ob_max_iter = 100 /\ ob_scalar >= 0) =>
        /\ (ob_x = 0 /\ ob_y = 0) => ob_scalar = 100
        /\ (ob_x = 2 /\ ob_y = 0) => ob_scalar = 1
        /\ (ob_x = -1 /\ ob_y = 0) => ob_scalar = 100


\* ------------------------------------------------------------------
\* C30 (claude-opus MandelbrotFractal): calculate(x, y, max_iter) and
\* calculate_array give the same iteration count for every point and every
\* max_iter, so turning NumPy acceleration on or off leaves the escape
\* counts as they are.
\* calculate tests z before it updates it and calculate_array after, so an
\* escaping point is counted one pass earlier by calculate_array.
\* ------------------------------------------------------------------
C30_ScalarEqualsArray ==
    (ob_scalar >= 0 /\ ob_array >= 0) => ob_scalar = ob_array


\* ------------------------------------------------------------------
\* C23 (kimi-k2.5 RenderEngine): is_busy() returns True for as long as the
\* most recently started render thread is still computing; an earlier
\* render thread never clears is_rendering while a newer render is in
\* progress.
\* When join() times out, render() starts the new thread beside the old
\* one, and the old thread's finally block sets is_rendering = False.
\* ------------------------------------------------------------------
C23_BusyWhileLatestComputes ==
    (kr_render_thread # 0 /\
     kr_threads[kr_render_thread].pc \in {"merging", "check"}) => kr_is_rendering


\* ------------------------------------------------------------------
\* C25 (kimi-k2.5 view history): once a fractal's history has been
\* initialised, after every sequence of pushes, go_back, go_forward,
\* reset_view and fractal switches the history is non-empty and
\* 0 <= cursor <= len(history) - 1.
\* ------------------------------------------------------------------
C25_CursorInsideHistory ==
    \A f \in DOMAIN kh_fractal_histories :
        /\ Len(kh_fractal_histories[f]) >= 1
        /\ f \in DOMAIN kh_fractal_history_indices
        /\ 0 <= kh_fractal_history_indices[f]
        /\ kh_fractal_history_indices[f] <= Len(kh_fractal_histories[f]) - 1

\* Both fractals have a history, and go_back has just moved the cursor of
\* the current one to its oldest entry, below a longer list.
C25_Witness ==
    /\ DOMAIN kh_fractal_histories = KhFractals
    /\ kh_log[Len(kh_log)].op = "back"
    /\ kh_log[Len(kh_log)].moved
    /\ kh_fractal_history_indices[kh_fractal_name] = 0
    /\ Len(kh_fractal_histories[kh_fractal_name]) >= 2


\* ------------------------------------------------------------------
\* C26 (kimi-k2.5 go_back / go_forward): after the move, the application's
\* view bounds, fractal parameters, palette and max_iter all equal the
\* corresponding fields of the history entry at the new cursor, for every
\* entry, whatever its fractal_params contains.
\* _restore_state skips an entry's fractal_params when the dict is empty.
\* ------------------------------------------------------------------
C26_NavigationRestoresEntry ==
    LET n == Len(kh_log)
        history == kh_fractal_histories[kh_fractal_name]
        cursor == kh_fractal_history_indices[kh_fractal_name]
    IN (kh_log[n].op \in {"back", "forward"} /\ kh_log[n].moved)
           => AppState = history[cursor + 1]


ZhSpecInit == ZhInit /\ KrIdle /\ KpIdle /\ PtIdle /\ MmIdle /\ OpIdle /\ KhIdle /\ QwIdle /\ OhIdle /\ KcIdle /\ QpIdle /\ KzIdle /\ OyIdle /\ QzIdle /\ MfIdle /\ KgIdle /\ OmIdle /\ KnIdle /\ ObIdle

ZhSpec == ZhSpecInit /\ [][ZhNext]_vars

\* ------------------------------------------------------------------
\* C27 (claude-opus ZoomHistory): if undo(s) returns p, then an immediately
\* following redo(p) returns s and leaves the undo stack and the redo stack
\* exactly as they were before the undo.
\* ------------------------------------------------------------------
C27_RedoInvertsUndo ==
    [][(/\ zh_last.op = "undo"
        /\ zh_last.ok
        /\ zh_last'.op = "redo"
        /\ zh_last'.arg = zh_last.ret)
       => /\ zh_last'.ok
          /\ zh_last'.ret = zh_last.arg
          /\ zh_stacks' = zh_last.before]_vars

\* redo has just followed a successful undo, with both stacks in use
C27_Witness ==
    /\ zh_last.op = "redo"
    /\ zh_last.prev = "undo"
    /\ zh_last.ok
    /\ Len(zh_stacks.history) >= 2
    /\ zh_stacks.future # <<>>

\* ------------------------------------------------------------------
\* C28 (claude-opus ZoomHistory): after any sequence of push, undo and redo
\* calls the undo stack holds at most MAX_HISTORY_SIZE (50) states,
\* although redo appends to it without a size check.
\* ------------------------------------------------------------------
C28_UndoStackBounded ==
    Len(zh_stacks.history) <= ZoomHistory_MAX_HISTORY_SIZE

\* redo has just appended the 50th state of the undo stack
C28_Witness ==
    /\ zh_last.op = "redo"
    /\ zh_last.ok
    /\ Len(zh_stacks.history) = ZoomHistory_MAX_HISTORY_SIZE
    /\ Len(zh_last.before.history) = ZoomHistory_MAX_HISTORY_SIZE - 1


\* ------------------------------------------------------------------
\* C29 (claude-opus FractalApp): switching from fractal kind A to another
\* kind and back restores A's view bounds exactly as they were when A was
\* left, for every view of A reachable by drag-selection zooms.
\* _select_fractal takes saved bounds with x_min = -2.5 and x_max = 1.0 for
\* the state of a fractal never shown and replaces them by the defaults.
\* (oh_states[A].bounds are the bounds save_state stored when A was left.)
\* ------------------------------------------------------------------
C29_SwitchBackRestoresBounds ==
    [][(/\ oh_last' = "select_fractal"
        /\ oh_current_fractal' # oh_current_fractal
        /\ oh_current_fractal' \in DOMAIN oh_states)
       => oh_bounds' = oh_states[oh_current_fractal'].bounds]_vars


\* ------------------------------------------------------------------
\* C24 (claude-opus FractalApp): every view change is eventually rendered;
\* whenever rendering is idle (_is_rendering is False) after a render has
\* completed, the displayed image was computed from the current view bounds
\* and max_iter, even if the change (keyboard undo/redo or reset, slider
\* release, resize) was requested while a render was in flight.
\* _render returns at once while _is_rendering is set, so a change made by
\* a keyboard shortcut during a render is not rendered. The formula states
\* the part on the view bounds; it leaves max_iter aside because a slider
\* that has been moved and not yet released differs from the image too.
\* ------------------------------------------------------------------
C24_IdleImageMatchesView ==
    (~oh_is_rendering /\ oh_displayed # OhNoTask.view)
        => oh_displayed.bounds = oh_bounds

====
